---- MODULE Spec2Model ----
(***************************************************************************)
(* A model of the whatsapp-server hub (server.js: session registry, chat   *)
(* delivery receipts, private rooms, call lifecycle), of its query layer   *)
(* (db/queries/*.js) and of the SFU / auto-recording controller            *)
(* (mediaServer.js).                                                       *)
(*                                                                         *)
(* Node runs every handler on one event loop: a handler runs without       *)
(* interruption up to its next `await`, and is resumed later.  A handler   *)
(* that is suspended at an await is a record in `tasks`; one action starts *)
(* a handler (its synchronous prefix) and one action per await resumes it  *)
(* (the awaited call's effect, then the code up to the next await).        *)
(***************************************************************************)
EXTENDS Naturals, Sequences, FiniteSets, TLC

\* ------------------------------------------------------------------ universe
Sessions == {"s1", "s2", "s3"}          \* socket ids
Users    == {"u1", "u2", "u3"}          \* rows of the users table
NoUser   == "nouser"                    \* userId undefined / null
NoSocket == "nosocket"                  \* resolveSocketId(...) === null
NoRoom   == "noroom"                    \* roomId undefined / null
Broadcast == "*"                        \* io.emit: every connected socket
\* rooms.id: "g1" is a group room the database holds from the start, the others
\* are the ids the database hands out to new rooms, in this order.
RoomIds  == {"g1", "p1", "p2", "p3", "p4"}

VARIABLES
    \* ---- server.js, in memory
    connectedUsers,   \* Map socketId -> {userId}: a sequence, in insertion order
    activeCalls,      \* Map roomId -> {callId}
    disconnected,     \* sockets whose 'disconnect' event has fired
    tasks,            \* handlers suspended at an await
    emitted,          \* the events the last step emitted, in order
    \* ---- the database
    is_online,        \* users.is_online
    db_rooms,         \* rooms joined with room_participants
    messages,         \* messages
    message_status,   \* message_status
    calls,            \* calls
    call_participants,\* call_participants
    chatAcks,         \* the acks start_private_chat has called back
    \* ---- mediaServer.js: the MediaServer maps and the objects they refer to
    rooms,            \* this.rooms: roomId -> room object (NoObj: no entry)
    peers,            \* this.peers: peerId -> {roomId, peer}
    roomObjs,         \* room objects {id, peers, recording, router}
    peerObjs,         \* peer objects {id, sendTransport, recvTransport, ...}
    producerObjs,     \* mediasoup producers
    consumerObjs,     \* mediasoup consumers of the peers
    recordingObjs,    \* recording objects {ffmpegProcess, transports, consumers, inputs}
    ffmpegProcs,      \* the spawn('ffmpeg') calls so far and their child processes
    sdpFiles,         \* the .sdp files in the recordings directory
    plainTransports,  \* the plain transports the routers have created
    stopReturns,      \* the recordings a stopRecording call has returned for
    socketRooms       \* socket.io room membership: pairs <<socket, roomId>>

hubVars   == <<connectedUsers, disconnected, is_online>>
chatVars  == <<messages, message_status>>
roomVars  == <<db_rooms, chatAcks>>
callVars  == <<activeCalls, calls, call_participants>>
mediaVars == <<rooms, peers, roomObjs, peerObjs, producerObjs, consumerObjs,
               recordingObjs, ffmpegProcs, sdpFiles, plainTransports, stopReturns,
               socketRooms>>
vars == <<connectedUsers, activeCalls, disconnected, tasks, emitted, is_online,
          db_rooms, messages, message_status, calls, call_participants, chatAcks,
          rooms, peers, roomObjs, peerObjs, producerObjs, consumerObjs,
          recordingObjs, ffmpegProcs, sdpFiles, plainTransports, stopReturns,
          socketRooms>>

\* A handler may start (and suspend) while fewer than MaxInFlight are suspended.
MaxInFlight == 2

MediaTaskKinds == {"join_media_room", "create_transport", "connect_transport",
                   "produce", "consume", "resume_consumer",
                   "stopRecording", "killTimer"}

CanSuspend == Cardinality({t \in tasks : t.kind \notin MediaTaskKinds}) < MaxInFlight

\* ------------------------------------------------------------ connectedUsers
CUHas(s) == \E i \in 1..Len(connectedUsers) : connectedUsers[i].socketId = s

CUIndex(s) == CHOOSE i \in 1..Len(connectedUsers) : connectedUsers[i].socketId = s

\* connectedUsers.get(socket.id)?.userId
UserIdOf(s) == IF CUHas(s) THEN connectedUsers[CUIndex(s)].userId ELSE NoUser

\* Map.set keeps the position of a key that is already present.
CUSet(s, u) ==
    IF CUHas(s)
      THEN [i \in 1..Len(connectedUsers) |->
              IF connectedUsers[i].socketId = s
                THEN [socketId |-> s, userId |-> u]
                ELSE connectedUsers[i]]
      ELSE Append(connectedUsers, [socketId |-> s, userId |-> u])

CUDelete(cu, s) == SelectSeq(cu, LAMBDA e : e.socketId # s)

\* The first entry, in insertion order, whose userId is u.
resolveSocketId(u) ==
    IF \E i \in 1..Len(connectedUsers) : connectedUsers[i].userId = u
      THEN LET i == CHOOSE i \in 1..Len(connectedUsers) :
                      /\ connectedUsers[i].userId = u
                      /\ \A j \in 1..(i-1) : connectedUsers[j].userId # u
           IN connectedUsers[i].socketId
      ELSE NoSocket

\* The sessions a user is registered on.
SessionsOf(u) == {s \in Sessions : CUHas(s) /\ UserIdOf(s) = u}

\* io.emit('users_online', Array.from(connectedUsers.values()))
UsersOnline(cu) == [ev |-> "users_online", to |-> Broadcast, snapshot |-> cu]

UserStatusChanged(u, online) ==
    [ev |-> "user_status_changed", to |-> Broadcast, userId |-> u, is_online |-> online]

\* ------------------------------------------------------- MediaServer: state
MediaRoomIds == {"m1"}                   \* the media room ids the clients use
NoObj == 0                               \* null / undefined object reference
NoPeerInfo == [roomId |-> NoRoom, peer |-> NoObj]

\* room.peers is a Map peerId -> peer: a sequence of entries in insertion order.
\* `ord` is the entry's place in that order (the id of the peer object that
\* opened the entry): Map.set on a present key keeps the place.
RoomPeerIds(x) == {roomObjs[x].peers[i].peerId : i \in 1..Len(roomObjs[x].peers)}

\* room.peers.get(peerId)
RoomPeersGet(x, peerId) ==
    LET hit == SelectSeq(roomObjs[x].peers, LAMBDA e : e.peerId = peerId)
    IN IF hit = <<>> THEN NoObj ELSE hit[1].peer

\* room.peers.set(peerId, peer)
RoomPeersSet(entries, peerId, peer) ==
    IF \E i \in 1..Len(entries) : entries[i].peerId = peerId
      THEN [i \in 1..Len(entries) |->
              IF entries[i].peerId = peerId THEN [entries[i] EXCEPT !.peer = peer]
                                            ELSE entries[i]]
      ELSE Append(entries, [peerId |-> peerId, peer |-> peer, ord |-> peer])

\* room.peers.delete(peerId)
RoomPeersDelete(entries, peerId) == SelectSeq(entries, LAMBDA e : e.peerId # peerId)

Range(f) == {f[i] : i \in DOMAIN f}

RECURSIVE SeqOfSet(_)
SeqOfSet(S) ==
    IF S = {} THEN <<>>
    ELSE LET e == CHOOSE e \in S : TRUE IN <<e>> \o SeqOfSet(S \ {e})

\* socket.to(roomId).emit(ev, ...): one event per socket of the socket.io room
\* other than the emitting socket.
ToRoom(members, s, roomId, ev) ==
    LET to == SeqOfSet({m \in Sessions : <<m, roomId>> \in members} \ {s})
    IN [i \in 1..Len(to) |-> [ev |-> ev, to |-> to[i], peerId |-> s, roomId |-> roomId]]

\* A faulty variant of Ack, which C21 tells from it: every ack reports success.
Ack_Success(s, request, success, message) ==
    [ev |-> "ack", to |-> s, request |-> request, success |-> TRUE,
     message |-> message]

\* callback({success: true, ...}) / callback({success: false, error})
Ack(s, request, success, message) ==
    [ev |-> "ack", to |-> s, request |-> request, success |-> success,
     message |-> message]

\* A faulty variant of InputFiles, which C7 tells from it: the clean-up loop
\* finds no input.
InputFiles_NoInput(rec) == {}

\* The .sdp files a recording's audioInputs and videoInputs name.
InputFiles(rec) == {recordingObjs[rec].taps[i].sdpFile : i \in 1..Len(recordingObjs[rec].taps)}

\* stopRecording closes every recording consumer and transport.
CloseTaps(recs, rec) ==
    [recs EXCEPT ![rec].taps = [i \in 1..Len(@) |-> [@[i] EXCEPT !.closed = TRUE]]]

\* stopRecording's loop over recording.transports: transport.close()
CloseTransports(pts, rec) ==
    [i \in 1..Len(pts) |->
       IF \E j \in 1..Len(recordingObjs[rec].taps) : recordingObjs[rec].taps[j].transport = i
         THEN [pts[i] EXCEPT !.closed = TRUE]
         ELSE pts[i]]

\* router.close() closes every transport the router of room object x created.
CloseRouter(pts, x) ==
    [i \in 1..Len(pts) |-> IF pts[i].room = x THEN [pts[i] EXCEPT !.closed = TRUE]
                                              ELSE pts[i]]

\* process.stdin.write / process.kill on the recording's ffmpegProcess
Signal(procs, rec, sig) ==
    LET p == recordingObjs[rec].ffmpegProcess
    IN IF p = NoObj THEN procs ELSE [procs EXCEPT ![p].signals = Append(@, sig)]

StopTask(x, rec) ==
    [kind |-> "stopRecording", room |-> x, recording |-> rec, pc |-> "wait",
     n |-> Cardinality({t \in tasks : t.kind = "stopRecording" /\ t.room = x
                                      /\ t.recording = rec})]

\* removePeer: room.peers.size === 0
RoomIsEmpty_Never(entries) == FALSE     \* a faulty variant, which C6 tells from it

RoomIsEmpty(entries) == Len(entries) = 0

\* A faulty variant of RemovePeerStops, which C4 tells from it: the recording is
\* stopped only when no peer is left.
RemovePeerStops_WhenNoneLeft(peerId) ==
    /\ peers[peerId] # NoPeerInfo
    /\ rooms[peers[peerId].roomId] # NoObj
    /\ LET x == rooms[peers[peerId].roomId] IN
       /\ roomObjs[x].recording # NoObj
       /\ Len(RoomPeersDelete(roomObjs[x].peers, peerId)) < 1

\* removePeer(peerId) stops the recording: the room has one and fewer than 2
\* peers are left.
RemovePeerStops(peerId) ==
    /\ peers[peerId] # NoPeerInfo
    /\ rooms[peers[peerId].roomId] # NoObj
    /\ LET x == rooms[peers[peerId].roomId] IN
       /\ roomObjs[x].recording # NoObj
       /\ Len(RoomPeersDelete(roomObjs[x].peers, peerId)) < 2

\* The stopRecording(roomId) that removePeer starts and does not await: with an
\* ffmpegProcess it writes 'q' and waits 2 s, suspended in `tasks`.
RemovePeerTasks(peerId) ==
    IF RemovePeerStops(peerId)
      THEN LET x == rooms[peers[peerId].roomId] IN
           IF recordingObjs[roomObjs[x].recording].ffmpegProcess # NoObj
             THEN {StopTask(x, roomObjs[x].recording)}
             ELSE {}
      ELSE {}

\* removePeer(peerId), with the synchronous part of the stopRecording(roomId) it
\* starts: a recording with no ffmpegProcess is stopped on the spot.
removePeer(peerId) ==
    IF peers[peerId] = NoPeerInfo
      THEN UNCHANGED <<rooms, peers, roomObjs, peerObjs, producerObjs, consumerObjs,
                       recordingObjs, ffmpegProcs, sdpFiles, plainTransports, stopReturns>>
    ELSE IF rooms[peers[peerId].roomId] = NoObj
      THEN /\ peers' = [peers EXCEPT ![peerId] = NoPeerInfo]
           /\ UNCHANGED <<rooms, roomObjs, peerObjs, producerObjs, consumerObjs,
                          recordingObjs, ffmpegProcs, sdpFiles, plainTransports, stopReturns>>
    ELSE LET roomId == peers[peerId].roomId
             peer == peers[peerId].peer
             x == rooms[roomId]
             left == RoomPeersDelete(roomObjs[x].peers, peerId)
             rec == roomObjs[x].recording
             stops == RemovePeerStops(peerId)
             waits == stops /\ recordingObjs[rec].ffmpegProcess # NoObj
             done == stops /\ ~waits
         IN /\ producerObjs' = [i \in 1..Len(producerObjs) |->
                                  IF i \in Range(peerObjs[peer].producers)
                                    THEN [producerObjs[i] EXCEPT !.closed = TRUE]
                                    ELSE producerObjs[i]]
            /\ consumerObjs' = [i \in 1..Len(consumerObjs) |->
                                  IF i \in peerObjs[peer].consumers
                                    THEN [consumerObjs[i] EXCEPT !.closed = TRUE]
                                    ELSE consumerObjs[i]]
            /\ peerObjs' = [peerObjs EXCEPT
                 ![peer].sendTransport = IF @ = "null" THEN @ ELSE "closed",
                 ![peer].recvTransport = IF @ = "null" THEN @ ELSE "closed"]
            /\ roomObjs' = [roomObjs EXCEPT
                 ![x].peers = left,
                 ![x].recording = IF done THEN NoObj ELSE @,
                 ![x].routerClosed = @ \/ RoomIsEmpty(left)]
            /\ recordingObjs' = IF done THEN CloseTaps(recordingObjs, rec)
                                        ELSE recordingObjs
            /\ sdpFiles' = IF done THEN sdpFiles \ InputFiles(rec) ELSE sdpFiles
            /\ plainTransports' =
                 LET pts == IF done THEN CloseTransports(plainTransports, rec)
                                    ELSE plainTransports
                 IN IF RoomIsEmpty(left) THEN CloseRouter(pts, x) ELSE pts
            /\ stopReturns' = IF done THEN stopReturns \cup {rec} ELSE stopReturns
            /\ ffmpegProcs' = IF waits THEN Signal(ffmpegProcs, rec, "q")
                                       ELSE ffmpegProcs
            /\ rooms' = IF RoomIsEmpty(left) THEN [rooms EXCEPT ![roomId] = NoObj]
                                         ELSE rooms
            /\ peers' = [peers EXCEPT ![peerId] = NoPeerInfo]

\* A faulty variant of KillTimer, which C31 tells from it: no timer is set.
KillTimer_None(t) == {}

\* stopRecording's setTimeout(() => kill('SIGKILL'), 2000), pending in `tasks`.
KillTimer(t) == {[t EXCEPT !.kind = "killTimer", !.pc = "kill"]}

\* stopRecording resumed after its 2 s wait: SIGTERM and the timer of the
\* SIGKILL, then the consumers, the transports, the .sdp files and
\* room.recording = null.
StopRecordingTimer(t) ==
    /\ t \in tasks /\ t.kind = "stopRecording"
    /\ ffmpegProcs' = Signal(ffmpegProcs, t.recording, "SIGTERM")
    /\ recordingObjs' = CloseTaps(recordingObjs, t.recording)
    /\ sdpFiles' = sdpFiles \ InputFiles(t.recording)
    /\ plainTransports' = CloseTransports(plainTransports, t.recording)
    /\ roomObjs' = [roomObjs EXCEPT ![t.room].recording = NoObj]
    /\ stopReturns' = stopReturns \cup {t.recording}
    /\ tasks' = (tasks \ {t}) \cup KillTimer(t)
    /\ emitted' = <<>>
    /\ UNCHANGED <<rooms, peers, peerObjs, producerObjs, consumerObjs, socketRooms>>
    /\ UNCHANGED <<connectedUsers, activeCalls, disconnected, is_online, chatVars,
                   roomVars, calls, call_participants>>

\* The timer stopRecording set fires 2 s later: kill('SIGKILL').
StopRecordingKill(t) ==
    /\ t \in tasks /\ t.kind = "killTimer"
    /\ ffmpegProcs' = Signal(ffmpegProcs, t.recording, "SIGKILL")
    /\ tasks' = tasks \ {t}
    /\ emitted' = <<>>
    /\ UNCHANGED <<rooms, peers, roomObjs, peerObjs, producerObjs, consumerObjs,
                   recordingObjs, sdpFiles, plainTransports, stopReturns, socketRooms>>
    /\ UNCHANGED <<connectedUsers, activeCalls, disconnected, is_online, chatVars,
                   roomVars, calls, call_participants>>

\* ------------------------------------------------------------------- presence
\* queries.users.setOnlineStatus(id, isOnline): UPDATE users SET is_online = $2
setOnlineStatus(id, isOnline) == [is_online EXCEPT ![id] = isOnline]

\* POST /api/auth/login: a successful login sets is_online, with no socket.
AuthLogin(u) ==
    /\ ~is_online[u]
    /\ is_online' = setOnlineStatus(u, TRUE)
    /\ emitted' = <<>>
    /\ UNCHANGED <<connectedUsers, disconnected, tasks, chatVars, roomVars, callVars>>
    /\ UNCHANGED mediaVars

\* socket.on('register_user'): the registry entry is set at once; with a userId
\* the handler then awaits the UPDATE.
RegisterUser(s, u) ==
    /\ s \notin disconnected
    /\ connectedUsers' = CUSet(s, u)
    /\ IF u # NoUser
         THEN LET t == [kind |-> "register_user", sid |-> s, userId |-> u]
              IN /\ t \notin tasks
                 /\ CanSuspend
                 /\ tasks' = tasks \cup {t}
                 /\ emitted' = <<>>
         ELSE /\ tasks' = tasks
              /\ emitted' = <<UsersOnline(connectedUsers')>>
    /\ UNCHANGED <<disconnected, is_online, chatVars, roomVars, callVars>>
    /\ UNCHANGED mediaVars

\* register_user resumed: the UPDATE has run, or has failed (.catch(() => {}));
\* either way the presence events follow.
RegisterUserDb(t) ==
    /\ t \in tasks /\ t.kind = "register_user"
    /\ \E ok \in BOOLEAN :
         is_online' = IF ok THEN setOnlineStatus(t.userId, TRUE) ELSE is_online
    /\ emitted' = <<UserStatusChanged(t.userId, TRUE), UsersOnline(connectedUsers)>>
    /\ tasks' = tasks \ {t}
    /\ UNCHANGED <<connectedUsers, disconnected, chatVars, roomVars, callVars>>
    /\ UNCHANGED mediaVars

\* socket.on('get_online_users'): the snapshot goes to the asking socket
GetOnlineUsers(s) ==
    /\ s \notin disconnected
    /\ emitted' = <<[ev |-> "users_online", to |-> s, snapshot |-> connectedUsers]>>
    /\ UNCHANGED <<hubVars, tasks, chatVars, roomVars, callVars>>
    /\ UNCHANGED mediaVars

\* socket.on('disconnect'): removePeer first; then, with a userId, the handler
\* awaits the UPDATE before it deletes the registry entry; without one it
\* deletes at once.  socket.io has taken the socket out of its rooms.
Disconnect(s) ==
    /\ s \notin disconnected
    /\ disconnected' = disconnected \cup {s}
    /\ IF UserIdOf(s) # NoUser
         THEN /\ CanSuspend
              /\ tasks' = tasks \cup RemovePeerTasks(s) \cup
                             {[kind |-> "disconnect", sid |-> s, userId |-> UserIdOf(s)]}
              /\ connectedUsers' = connectedUsers
              /\ emitted' = <<>>
         ELSE /\ tasks' = tasks \cup RemovePeerTasks(s)
              /\ connectedUsers' = CUDelete(connectedUsers, s)
              /\ emitted' = <<UsersOnline(connectedUsers')>>
    /\ removePeer(s)
    /\ socketRooms' = {m \in socketRooms : m[1] # s}
    /\ UNCHANGED <<is_online, chatVars, roomVars, callVars>>

\* disconnect resumed: the UPDATE to is_online = FALSE has run (or failed).
DisconnectDb(t) ==
    /\ t \in tasks /\ t.kind = "disconnect"
    /\ \E ok \in BOOLEAN :
         is_online' = IF ok THEN setOnlineStatus(t.userId, FALSE) ELSE is_online
    /\ connectedUsers' = CUDelete(connectedUsers, t.sid)
    /\ emitted' = <<UserStatusChanged(t.userId, FALSE), UsersOnline(connectedUsers')>>
    /\ tasks' = tasks \ {t}
    /\ UNCHANGED <<disconnected, chatVars, roomVars, callVars>>
    /\ UNCHANGED mediaVars

\* ---------------------------------------------------------------- call lifecycle
NoCall == 0                              \* activeCalls has no entry for the room
MaxCalls == 2                            \* rows of the calls table
MaxParticipantRows == 3                  \* rows of the call_participants table

TerminalStatus == {"completed", "missed", "rejected"}

\* CallQueries.updateStatus(id, status): UPDATE calls SET status = $2 [, ended_at = NOW()]
updateStatus(id, status) ==
    [calls EXCEPT ![id].status = status,
                  ![id].ended_at = IF status \in TerminalStatus THEN TRUE ELSE @]

\* CallQueries.end(id)
end(id) == updateStatus(id, "completed")

\* CallQueries.create({roomId, initiatorId}): INSERT ... status 'ringing'
create(roomId, initiatorId) ==
    Append(calls, [room_id |-> roomId, initiator_id |-> initiatorId,
                   status |-> "ringing", ended_at |-> FALSE])

\* The rows of call_participants for one (call, user); the table has no unique
\* constraint on the pair, so there may be several (row n is the n-th insert).
ParticipantRows(callId, userId) ==
    {p \in call_participants : p.call_id = callId /\ p.user_id = userId}

\* CallQueries.addParticipant(callId, userId): a plain INSERT, answered = FALSE
addParticipant(callId, userId) ==
    call_participants \cup
      {[call_id |-> callId, user_id |-> userId,
        n |-> Cardinality(ParticipantRows(callId, userId)) + 1, answered |-> FALSE]}

\* CallQueries.answerParticipant(callId, userId): UPDATE ... SET answered = TRUE
answerParticipant(callId, userId) ==
    {IF p.call_id = callId /\ p.user_id = userId
       THEN [p EXCEPT !.answered = TRUE] ELSE p : p \in call_participants}

\* The target of a signalling event: a socket id is taken as it is, a user id is
\* resolved to its first registered socket, anything else is passed to io.to().
ResolveTarget(to) ==
    IF CUHas(to) THEN to
    ELSE IF resolveSocketId(to) # NoSocket THEN resolveSocketId(to) ELSE to

\* The tail of call_user: incoming_call to the target, call_ringing to the caller
\* when the target is a registered socket.
CallUserEmits(s, to) ==
    LET target == ResolveTarget(to) IN
    <<[ev |-> "incoming_call", to |-> target, from |-> s]>>
      \o (IF CUHas(target) THEN <<[ev |-> "call_ringing", to |-> s]>> ELSE <<>>)

\* INSERTs into call_participants that suspended handlers are still to make.
PendingParticipantRows ==
    Cardinality({t \in tasks : t.kind \in {"call_user", "answer_call"}
                               /\ t.pc \in {"create", "addParticipant"}})

PendingCallRows == Cardinality({t \in tasks : t.kind = "call_user" /\ t.pc = "create"})

\* socket.on('call_user')
CallUser(s, to, roomId) ==
    /\ s \notin disconnected
    /\ IF roomId # NoRoom /\ UserIdOf(s) # NoUser
         THEN LET t == [kind |-> "call_user", sid |-> s, userId |-> UserIdOf(s),
                        to |-> to, roomId |-> roomId, pc |-> "create", callId |-> NoCall]
              IN /\ t \notin tasks
                 /\ CanSuspend
                 /\ Len(calls) + PendingCallRows < MaxCalls
                 /\ Cardinality(call_participants) + PendingParticipantRows < MaxParticipantRows
                 /\ tasks' = tasks \cup {t}
                 /\ emitted' = <<>>
         ELSE /\ tasks' = tasks
              /\ emitted' = CallUserEmits(s, to)
    /\ UNCHANGED <<hubVars, chatVars, roomVars, callVars>>
    /\ UNCHANGED mediaVars

\* call_user resumed from queries.calls.create
CallUserCreate(t) ==
    /\ t \in tasks /\ t.kind = "call_user" /\ t.pc = "create"
    /\ \/ /\ calls' = create(t.roomId, t.userId)
          /\ tasks' = (tasks \ {t}) \cup
                        {[t EXCEPT !.pc = "addParticipant", !.callId = Len(calls) + 1]}
          /\ emitted' = <<>>
       \/ /\ calls' = calls                            \* the INSERT failed: caught
          /\ tasks' = tasks \ {t}
          /\ emitted' = CallUserEmits(t.sid, t.to)
    /\ UNCHANGED <<hubVars, chatVars, roomVars, activeCalls, call_participants>>
    /\ UNCHANGED mediaVars

\* call_user resumed from queries.calls.addParticipant
CallUserAddParticipant(t) ==
    /\ t \in tasks /\ t.kind = "call_user" /\ t.pc = "addParticipant"
    /\ \/ /\ call_participants' = addParticipant(t.callId, t.userId)
          /\ activeCalls' = [activeCalls EXCEPT ![t.roomId] = t.callId]
       \/ /\ UNCHANGED <<call_participants, activeCalls>>   \* the INSERT failed: caught
    /\ tasks' = tasks \ {t}
    /\ emitted' = CallUserEmits(t.sid, t.to)
    /\ UNCHANGED <<hubVars, chatVars, roomVars, calls>>
    /\ UNCHANGED mediaVars

CallAccepted(to) == <<[ev |-> "call_accepted", to |-> ResolveTarget(to)]>>

\* socket.on('answer_call'): the call id is read from activeCalls before the
\* first await.
AnswerCall(s, to, roomId) ==
    /\ s \notin disconnected
    /\ IF roomId # NoRoom /\ UserIdOf(s) # NoUser /\ activeCalls[roomId] # NoCall
         THEN LET t == [kind |-> "answer_call", sid |-> s, userId |-> UserIdOf(s),
                        to |-> to, roomId |-> roomId, pc |-> "addParticipant",
                        callId |-> activeCalls[roomId]]
              IN /\ t \notin tasks
                 /\ CanSuspend
                 /\ Cardinality(call_participants) + PendingParticipantRows < MaxParticipantRows
                 /\ tasks' = tasks \cup {t}
                 /\ emitted' = <<>>
         ELSE /\ tasks' = tasks
              /\ emitted' = CallAccepted(to)
    /\ UNCHANGED <<hubVars, chatVars, roomVars, callVars>>
    /\ UNCHANGED mediaVars

\* answer_call resumed from one of its three awaits; a failure of any of them
\* is caught and skips the rest.
AnswerCallDb(t) ==
    /\ t \in tasks /\ t.kind = "answer_call"
    /\ \/ /\ t.pc = "addParticipant"
          /\ call_participants' = addParticipant(t.callId, t.userId)
          /\ tasks' = (tasks \ {t}) \cup {[t EXCEPT !.pc = "answerParticipant"]}
          /\ emitted' = <<>>
          /\ UNCHANGED calls
       \/ /\ t.pc = "answerParticipant"
          /\ call_participants' = answerParticipant(t.callId, t.userId)
          /\ tasks' = (tasks \ {t}) \cup {[t EXCEPT !.pc = "updateStatus"]}
          /\ emitted' = <<>>
          /\ UNCHANGED calls
       \/ /\ t.pc = "updateStatus"
          /\ calls' = updateStatus(t.callId, "ongoing")
          /\ tasks' = tasks \ {t}
          /\ emitted' = CallAccepted(t.to)
          /\ UNCHANGED call_participants
       \/ /\ tasks' = tasks \ {t}                      \* the query failed: caught
          /\ emitted' = CallAccepted(t.to)
          /\ UNCHANGED <<calls, call_participants>>
    /\ UNCHANGED <<hubVars, chatVars, roomVars, activeCalls>>
    /\ UNCHANGED mediaVars

\* socket.on('reject_call') and socket.on('end_call'): the same handler but for
\* the status written and the event emitted.
HangUp(kind, s, to, roomId) ==
    /\ s \notin disconnected
    /\ IF roomId # NoRoom /\ activeCalls[roomId] # NoCall
         THEN LET t == [kind |-> kind, sid |-> s, to |-> to, roomId |-> roomId,
                        pc |-> "updateStatus", callId |-> activeCalls[roomId]]
              IN /\ t \notin tasks
                 /\ CanSuspend
                 /\ tasks' = tasks \cup {t}
                 /\ emitted' = <<>>
         ELSE /\ tasks' = tasks
              /\ emitted' = <<[ev |-> IF kind = "reject_call" THEN "call_rejected"
                                                              ELSE "call_ended",
                               to |-> ResolveTarget(to)]>>
    /\ UNCHANGED <<hubVars, chatVars, roomVars, callVars>>
    /\ UNCHANGED mediaVars

RejectCall(s, to, roomId) == HangUp("reject_call", s, to, roomId)

EndCall(s, to, roomId) == HangUp("end_call", s, to, roomId)

\* reject_call resumed: updateStatus(callId, 'rejected').catch(() => {}), then
\* activeCalls.delete(roomId)
RejectCallDb(t) ==
    /\ t \in tasks /\ t.kind = "reject_call"
    /\ \/ calls' = updateStatus(t.callId, "rejected")
       \/ calls' = calls
    /\ activeCalls' = [activeCalls EXCEPT ![t.roomId] = NoCall]
    /\ tasks' = tasks \ {t}
    /\ emitted' = <<[ev |-> "call_rejected", to |-> ResolveTarget(t.to)]>>
    /\ UNCHANGED <<hubVars, chatVars, roomVars, call_participants>>
    /\ UNCHANGED mediaVars

\* end_call resumed: queries.calls.end(callId).catch(() => {}), then
\* activeCalls.delete(roomId)
EndCallDb(t) ==
    /\ t \in tasks /\ t.kind = "end_call"
    /\ \/ calls' = end(t.callId)
       \/ calls' = calls
    /\ activeCalls' = [activeCalls EXCEPT ![t.roomId] = NoCall]
    /\ tasks' = tasks \ {t}
    /\ emitted' = <<[ev |-> "call_ended", to |-> ResolveTarget(t.to)]>>
    /\ UNCHANGED <<hubVars, chatVars, roomVars, call_participants>>
    /\ UNCHANGED mediaVars

\* socket.on('ice_candidate'): io.to(to).emit(...), the target is not resolved
IceCandidate(s, to) ==
    /\ s \notin disconnected
    /\ emitted' = <<[ev |-> "ice_candidate", to |-> to, from |-> s]>>
    /\ UNCHANGED <<hubVars, tasks, chatVars, roomVars, callVars>>
    /\ UNCHANGED mediaVars

\* ---------------------------------------------------------------- private rooms
MaxPrivateRooms == 2                     \* private rooms the model lets exist

\* The ids the database gives the private rooms it creates, in this order.
PrivateRoomIds == <<"p1", "p2", "p3", "p4">>

PrivateRooms == {r \in db_rooms : r.type = "private"}

\* The SELECT of findOrCreatePrivate: the private rooms with a participant row
\* for userIdA and one for userIdB (the same row serves both when they are equal).
PrivateRoomsOf(userIdA, userIdB) ==
    {r \in PrivateRooms : userIdA \in r.members /\ userIdB \in r.members}

\* RoomQueries.getParticipants(roomId)
getParticipants(roomId) ==
    IF \E r \in db_rooms : r.id = roomId
      THEN (CHOOSE r \in db_rooms : r.id = roomId).members
      ELSE {}

\* The suspended start_private_chat handlers that may still create a room.
PendingPrivateRooms ==
    Cardinality({t \in tasks :
                   /\ t.kind = "start_private_chat"
                   /\ \/ t.pc = "transaction"
                      \/ t.pc = "select" /\ PrivateRoomsOf(t.userId, t.targetUserId) = {}})

\* socket.on('start_private_chat'): findOrCreatePrivate(userId, targetUserId, userId)
\* issues its SELECT and suspends.
StartPrivateChat(s, userId, targetUserId) ==
    /\ s \notin disconnected
    /\ LET t == [kind |-> "start_private_chat", sid |-> s, userId |-> userId,
                 targetUserId |-> targetUserId, pc |-> "select",
                 room |-> NoRoom, created |-> FALSE]
       IN /\ t \notin tasks
          /\ CanSuspend
          /\ \/ PrivateRoomsOf(userId, targetUserId) # {}
             \/ Cardinality(PrivateRooms) + PendingPrivateRooms < MaxPrivateRooms
          /\ tasks' = tasks \cup {t}
    /\ emitted' = <<>>
    /\ UNCHANGED <<hubVars, chatVars, roomVars, callVars>>
    /\ UNCHANGED mediaVars

StartPrivateChatError(t) == <<[ev |-> "ack", to |-> t.sid, error |-> TRUE]>>

\* findOrCreatePrivate resumed from its SELECT ... LIMIT 1: a room that matches is
\* returned with created: false; with none the transaction is started.
FindOrCreatePrivateSelect(t) ==
    /\ t \in tasks /\ t.kind = "start_private_chat" /\ t.pc = "select"
    /\ \/ /\ \E r \in PrivateRoomsOf(t.userId, t.targetUserId) :
               tasks' = (tasks \ {t}) \cup
                          {[t EXCEPT !.pc = "getParticipants", !.room = r.id]}
          /\ emitted' = <<>>
       \/ /\ PrivateRoomsOf(t.userId, t.targetUserId) = {}
          /\ tasks' = (tasks \ {t}) \cup {[t EXCEPT !.pc = "transaction"]}
          /\ emitted' = <<>>
       \/ /\ tasks' = tasks \ {t}                      \* the query failed
          /\ emitted' = StartPrivateChatError(t)
    /\ UNCHANGED <<hubVars, chatVars, roomVars, callVars>>
    /\ UNCHANGED mediaVars

\* db.transaction(...) of findOrCreatePrivate: INSERT the room, INSERT its two
\* participant rows, COMMIT.  Nothing of it is visible before the COMMIT, so it
\* takes effect at once here.  UNIQUE(room_id, user_id) fails the second INSERT
\* when both ids are the same user: ROLLBACK, and the error is rethrown.
FindOrCreatePrivateTransaction(t) ==
    /\ t \in tasks /\ t.kind = "start_private_chat" /\ t.pc = "transaction"
    /\ \/ /\ t.userId # t.targetUserId
          /\ LET id == PrivateRoomIds[Cardinality(PrivateRooms) + 1] IN
             /\ db_rooms' = db_rooms \cup
                   {[id |-> id, type |-> "private",
                     members |-> {t.userId, t.targetUserId}]}
             /\ tasks' = (tasks \ {t}) \cup
                   {[t EXCEPT !.pc = "getParticipants", !.room = id, !.created = TRUE]}
          /\ emitted' = <<>>
       \/ /\ db_rooms' = db_rooms                     \* ROLLBACK
          /\ tasks' = tasks \ {t}
          /\ emitted' = StartPrivateChatError(t)
    /\ UNCHANGED <<hubVars, chatVars, chatAcks, callVars>>
    /\ UNCHANGED mediaVars

\* start_private_chat resumed from getParticipants: the ack {room, otherUser, created}
StartPrivateChatAck(t) ==
    /\ t \in tasks /\ t.kind = "start_private_chat" /\ t.pc = "getParticipants"
    /\ \/ /\ chatAcks' = chatAcks \cup
                 {[userId |-> t.userId, targetUserId |-> t.targetUserId,
                   room |-> t.room, created |-> t.created]}
          /\ emitted' = <<[ev |-> "ack", to |-> t.sid, error |-> FALSE, room |-> t.room,
                           participants |-> getParticipants(t.room),
                           created |-> t.created]>>
       \/ /\ chatAcks' = chatAcks                      \* the query failed
          /\ emitted' = StartPrivateChatError(t)
    /\ tasks' = tasks \ {t}
    /\ UNCHANGED <<hubVars, chatVars, db_rooms, callVars>>
    /\ UNCHANGED mediaVars

\* -------------------------------------------------------------- db.transaction
\* One call of db.transaction(callback), kept in `tasks` to its end and after:
\* pc is the await it is suspended at ("done": settled), queries the statements
\* it has sent on its client, err the error its catch block caught, released
\* the calls of client.release(), settled / thrown how its promise ended.
TransactionCall(id) ==
    /\ ~\E t \in tasks : t.kind = "transaction" /\ t.id = id
    /\ tasks' = tasks \cup
         {[kind |-> "transaction", id |-> id, pc |-> "connect", queries |-> <<>>,
           callback |-> "none", err |-> "", released |-> 0,
           settled |-> "pending", thrown |-> ""]}

\* catch (err) { await client.query('ROLLBACK'); ... }
Catch(t, err) ==
    [t EXCEPT !.pc = "ROLLBACK", !.err = err, !.queries = Append(@, "ROLLBACK")]

\* A faulty variant of Settle, which C37 tells from it: the client is released
\* at the end of the try block, not in a finally.
Settle_ReleaseInTry(t, settled, thrown) ==
    [t EXCEPT !.pc = "done", !.settled = settled, !.thrown = thrown,
              !.released = IF settled = "resolved" THEN @ + 1 ELSE @]

\* return result / throw, through finally { client.release(); }
Settle(t, settled, thrown) ==
    [t EXCEPT !.pc = "done", !.settled = settled, !.thrown = thrown,
              !.released = @ + 1]

TransactionStep(t, u) ==
    /\ tasks' = (tasks \ {t}) \cup {u}
    /\ emitted' = <<>>
    /\ UNCHANGED <<hubVars, chatVars, roomVars, callVars>>
    /\ UNCHANGED mediaVars

\* resumed from pool.connect(): BEGIN is sent on the client; a rejected connect
\* rejects the transaction, with no client.
TransactionConnect(t, ok) ==
    /\ t \in tasks /\ t.kind = "transaction" /\ t.pc = "connect"
    /\ TransactionStep(t,
         IF ok THEN [t EXCEPT !.pc = "BEGIN", !.queries = Append(@, "BEGIN")]
               ELSE [t EXCEPT !.pc = "done", !.settled = "rejected",
                              !.thrown = "connect"])

\* resumed from client.query('BEGIN'): the callback is called
TransactionBegin(t, ok) ==
    /\ t \in tasks /\ t.kind = "transaction" /\ t.pc = "BEGIN"
    /\ TransactionStep(t, IF ok THEN [t EXCEPT !.pc = "callback"]
                                ELSE Catch(t, "BEGIN"))

\* resumed from callback(client): COMMIT is sent
TransactionCallback(t, ok) ==
    /\ t \in tasks /\ t.kind = "transaction" /\ t.pc = "callback"
    /\ TransactionStep(t,
         IF ok THEN [t EXCEPT !.pc = "COMMIT", !.callback = "ok",
                              !.queries = Append(@, "COMMIT")]
               ELSE Catch([t EXCEPT !.callback = "failed"], "callback"))

\* resumed from client.query('COMMIT'): the result is returned
TransactionCommit(t, ok) ==
    /\ t \in tasks /\ t.kind = "transaction" /\ t.pc = "COMMIT"
    /\ TransactionStep(t, IF ok THEN Settle(t, "resolved", "")
                                ELSE Catch(t, "COMMIT"))

\* resumed from client.query('ROLLBACK') in the catch block: err is thrown,
\* or the ROLLBACK's own error when it rejected
TransactionRollback(t, ok) ==
    /\ t \in tasks /\ t.kind = "transaction" /\ t.pc = "ROLLBACK"
    /\ TransactionStep(t, Settle(t, "rejected", IF ok THEN t.err ELSE "ROLLBACK"))

\* ------------------------------------------------------------------------ chat
MaxMessages == 2                         \* rows of the messages table
NoMessage == 0                           \* payload.messageId undefined

MessageIds == 1..MaxMessages

\* MessageQueries.create({roomId, senderId, ...}): INSERT INTO messages
createMessage(roomId, senderId) ==
    Append(messages, [room_id |-> roomId, sender_id |-> senderId])

\* MessageQueries.setStatus(messageId, userId, status):
\*   INSERT ... ON CONFLICT (message_id, user_id) DO UPDATE SET status = EXCLUDED.status
setStatus(messageId, userId, status) ==
    [message_status EXCEPT ![messageId][userId] = status]

\* MessageQueries.markRoomAs(roomId, userId, status): for every message of the
\* room that userId did not send, INSERT the row, or UPDATE it WHERE its status
\* is not already the new one.
markRoomAs(roomId, userId, status) ==
    [m \in MessageIds |->
       IF m <= Len(messages) /\ messages[m].room_id = roomId
                             /\ messages[m].sender_id # userId
         THEN [message_status[m] EXCEPT ![userId] = status]
         ELSE message_status[m]]

\* listByRoom's CASE ms.status WHEN 'read' THEN 2 WHEN 'delivered' THEN 1 ELSE 0
StatusCode(status) ==
    CASE status = "read" -> 2
      [] status = "delivered" -> 1
      [] OTHER -> 0

\* The users with a message_status row for message m.
StatusRows(m) == {u \in Users : message_status[m][u] # "none"}

\* A faulty variant of MinCode, which C23 tells from it: the greatest code.
MinCode_Max(m) ==
    CHOOSE c \in {StatusCode(message_status[m][u]) : u \in StatusRows(m)} :
       \A u \in StatusRows(m) : c >= StatusCode(message_status[m][u])

\* listByRoom's MIN(CASE ...) over the rows of message m
MinCode(m) ==
    CHOOSE c \in {StatusCode(message_status[m][u]) : u \in StatusRows(m)} :
       \A u \in StatusRows(m) : c <= StatusCode(message_status[m][u])

\* listByRoom's delivery_status column for message m
delivery_status(m) ==
    IF Cardinality(StatusRows(m)) = 0 THEN "sent"
    ELSE IF MinCode(m) >= 2 THEN "read"
    ELSE IF MinCode(m) >= 1 THEN "delivered"
    ELSE "sent"

\* MessageQueries.listByRoom(roomId): the messages of the room, the newest
\* first, each with its delivery_status.
RECURSIVE listByRoom(_, _)
listByRoom(roomId, m) ==
    IF m = 0 THEN <<>>
    ELSE IF messages[m].room_id = roomId
      THEN <<[id |-> m, room_id |-> roomId, sender_id |-> messages[m].sender_id,
              delivery_status |-> delivery_status(m)]>> \o listByRoom(roomId, m - 1)
    ELSE listByRoom(roomId, m - 1)

\* socket.on('get_messages'): the handler awaits listByRoom.
GetMessages(s, roomId) ==
    /\ s \notin disconnected
    /\ CanSuspend
    /\ tasks' = tasks \cup {[kind |-> "get_messages", sid |-> s, roomId |-> roomId]}
    /\ emitted' = <<>>
    /\ UNCHANGED <<hubVars, chatVars, roomVars, callVars>>
    /\ UNCHANGED mediaVars

\* get_messages resumed from listByRoom: callback(messages); callback([]) when
\* the query failed.
GetMessagesAck(t) ==
    /\ t \in tasks /\ t.kind = "get_messages"
    /\ \/ emitted' = <<[ev |-> "ack", to |-> t.sid, request |-> "get_messages",
                        ok |-> TRUE,
                        messages |-> listByRoom(t.roomId, Len(messages))]>>
       \/ emitted' = <<[ev |-> "ack", to |-> t.sid, request |-> "get_messages",
                        ok |-> FALSE, messages |-> <<>>]>>
    /\ tasks' = tasks \ {t}
    /\ UNCHANGED <<hubVars, chatVars, roomVars, callVars>>
    /\ UNCHANGED mediaVars

\* A faulty variant of SocketsOf, which C14 tells from it: every registered
\* socket is taken.
SocketsOf_Everyone(users) ==
    [i \in 1..Len(connectedUsers) |-> connectedUsers[i].socketId]

\* The connected sockets, in registry order, whose user is one of `users`.
SocketsOf(users) ==
    LET hit == SelectSeq(connectedUsers, LAMBDA e : e.userId \in users)
    IN [i \in 1..Len(hit) |-> hit[i].socketId]

ReceiveGroupMessage(t, sockets) ==
    [i \in 1..Len(sockets) |->
       [ev |-> "receive_group_message", to |-> sockets[i], messageId |-> t.msgId,
        senderId |-> t.userId, socketId |-> t.sid, roomId |-> t.roomId]]

PendingMessages ==
    Cardinality({t \in tasks : t.kind = "send_group_message" /\ t.pc = "create"})

\* socket.on('send_group_message'): with a roomId and a registered user the
\* message is persisted first; the fan-out comes last.
SendGroupMessage(s, roomId) ==
    /\ s \notin disconnected
    /\ LET t == [kind |-> "send_group_message", sid |-> s, userId |-> UserIdOf(s),
                 roomId |-> roomId, msgId |-> NoMessage, todo |-> {},
                 pc |-> IF roomId # NoRoom /\ UserIdOf(s) # NoUser
                          THEN "create" ELSE "emitParticipants"]
       IN IF roomId = NoRoom
            THEN /\ tasks' = tasks
                 /\ emitted' = <<[ev |-> "receive_group_message", to |-> Broadcast,
                                  messageId |-> NoMessage, senderId |-> UserIdOf(s),
                                  socketId |-> s, roomId |-> roomId]>>
            ELSE /\ t \notin tasks
                 /\ CanSuspend
                 /\ Len(messages) + PendingMessages < MaxMessages
                 /\ tasks' = tasks \cup {t}
                 /\ emitted' = <<>>
    /\ UNCHANGED <<hubVars, chatVars, roomVars, callVars>>
    /\ UNCHANGED mediaVars

\* send_group_message resumed from queries.messages.create
SendGroupMessageCreate(t) ==
    /\ t \in tasks /\ t.kind = "send_group_message" /\ t.pc = "create"
    /\ \/ /\ messages' = createMessage(t.roomId, t.userId)
          /\ tasks' = (tasks \ {t}) \cup
                {[t EXCEPT !.msgId = Len(messages) + 1, !.pc = "statusParticipants"]}
       \/ /\ messages' = messages                       \* the INSERT failed: caught
          /\ tasks' = (tasks \ {t}) \cup {[t EXCEPT !.pc = "emitParticipants"]}
    /\ emitted' = <<>>
    /\ UNCHANGED <<hubVars, message_status, roomVars, callVars>>
    /\ UNCHANGED mediaVars

\* send_group_message resumed from the getParticipants before the status rows,
\* and from each setStatus(messageId, p.id, 'sent') of its loop.
SendGroupMessageStatus(t) ==
    /\ t \in tasks /\ t.kind = "send_group_message"
    /\ \/ /\ t.pc = "statusParticipants"
          /\ LET todo == getParticipants(t.roomId) \ {t.userId} IN
             tasks' = (tasks \ {t}) \cup
                {[t EXCEPT !.todo = todo,
                           !.pc = IF todo = {} THEN "emitParticipants" ELSE "setStatus"]}
          /\ UNCHANGED message_status
       \/ /\ t.pc = "setStatus"
          /\ \E p \in t.todo :
               /\ message_status' = setStatus(t.msgId, p, "sent")
               /\ tasks' = (tasks \ {t}) \cup
                    {[t EXCEPT !.todo = t.todo \ {p},
                               !.pc = IF t.todo = {p} THEN "emitParticipants"
                                                      ELSE "setStatus"]}
       \/ /\ t.pc \in {"statusParticipants", "setStatus"}   \* a query failed: caught
          /\ tasks' = (tasks \ {t}) \cup {[t EXCEPT !.todo = {}, !.pc = "emitParticipants"]}
          /\ UNCHANGED message_status
    /\ emitted' = <<>>
    /\ UNCHANGED <<hubVars, messages, roomVars, callVars>>
    /\ UNCHANGED mediaVars

\* send_group_message resumed from the getParticipants of the fan-out
SendGroupMessageEmit(t) ==
    /\ t \in tasks /\ t.kind = "send_group_message" /\ t.pc = "emitParticipants"
    /\ \/ emitted' = ReceiveGroupMessage(t, SocketsOf(getParticipants(t.roomId)))
       \/ emitted' = <<[ev |-> "receive_group_message", to |-> Broadcast,
                        messageId |-> t.msgId, senderId |-> t.userId,
                        socketId |-> t.sid, roomId |-> t.roomId]>>   \* the lookup failed
    /\ tasks' = tasks \ {t}
    /\ UNCHANGED <<hubVars, chatVars, roomVars, callVars>>
    /\ UNCHANGED mediaVars

\* socket.on('message_delivered')
MessageDelivered(s, messageId) ==
    /\ s \notin disconnected
    /\ IF UserIdOf(s) = NoUser \/ messageId = NoMessage
         THEN tasks' = tasks
         ELSE LET t == [kind |-> "message_delivered", sid |-> s, userId |-> UserIdOf(s),
                        msgId |-> messageId, pc |-> "setStatus"]
              IN /\ t \notin tasks
                 /\ CanSuspend
                 /\ tasks' = tasks \cup {t}
    /\ emitted' = <<>>
    /\ UNCHANGED <<hubVars, chatVars, roomVars, callVars>>
    /\ UNCHANGED mediaVars

\* message_delivered resumed from setStatus(messageId, userId, 'delivered'), then
\* from findById(messageId): the sender's socket gets message_status_update.
MessageDeliveredDb(t) ==
    /\ t \in tasks /\ t.kind = "message_delivered"
    /\ \/ /\ t.pc = "setStatus"
          /\ message_status' = setStatus(t.msgId, t.userId, "delivered")
          /\ tasks' = (tasks \ {t}) \cup {[t EXCEPT !.pc = "findById"]}
          /\ emitted' = <<>>
       \/ /\ t.pc = "findById"
          /\ UNCHANGED message_status
          /\ tasks' = tasks \ {t}
          /\ LET to == resolveSocketId(messages[t.msgId].sender_id) IN
             emitted' = IF to = NoSocket THEN <<>>
                        ELSE <<[ev |-> "message_status_update", to |-> to,
                                messageId |-> t.msgId, userId |-> t.userId,
                                status |-> "delivered",
                                roomId |-> messages[t.msgId].room_id]>>
       \/ /\ UNCHANGED message_status                   \* a query failed: caught
          /\ tasks' = tasks \ {t}
          /\ emitted' = <<>>
    /\ UNCHANGED <<hubVars, messages, roomVars, callVars>>
    /\ UNCHANGED mediaVars

\* socket.on('mark_read')
MarkRead(s, roomId) ==
    /\ s \notin disconnected
    /\ IF UserIdOf(s) = NoUser
         THEN tasks' = tasks
         ELSE LET t == [kind |-> "mark_read", sid |-> s, userId |-> UserIdOf(s),
                        roomId |-> roomId, pc |-> "markRoomAs"]
              IN /\ t \notin tasks
                 /\ CanSuspend
                 /\ tasks' = tasks \cup {t}
    /\ emitted' = <<>>
    /\ UNCHANGED <<hubVars, chatVars, roomVars, callVars>>
    /\ UNCHANGED mediaVars

\* A faulty variant of SenderIds, which C19 tells from it: the reader's own
\* messages are not filtered out.
RECURSIVE SenderIds_WithReader(_, _, _, _)
SenderIds_WithReader(m, roomId, userId, acc) ==
    IF m = 0 THEN acc
    ELSE IF /\ messages[m].room_id = roomId
            /\ \A i \in 1..Len(acc) : acc[i] # messages[m].sender_id
           THEN SenderIds_WithReader(m - 1, roomId, userId,
                                     Append(acc, messages[m].sender_id))
           ELSE SenderIds_WithReader(m - 1, roomId, userId, acc)

\* senderIds of mark_read: the distinct senders other than userId of the room's
\* messages, newest message first (listByRoom orders by created_at DESC).
RECURSIVE SenderIds(_, _, _, _)
SenderIds(m, roomId, userId, acc) ==
    IF m = 0 THEN acc
    ELSE IF /\ messages[m].room_id = roomId
            /\ messages[m].sender_id # userId
            /\ \A i \in 1..Len(acc) : acc[i] # messages[m].sender_id
           THEN SenderIds(m - 1, roomId, userId, Append(acc, messages[m].sender_id))
           ELSE SenderIds(m - 1, roomId, userId, acc)

\* One message_status_update{status:'read'} per sender that resolves to a socket.
ReadReceipts(roomId, userId) ==
    LET senders == SelectSeq(SenderIds(Len(messages), roomId, userId, <<>>),
                             LAMBDA u : resolveSocketId(u) # NoSocket)
    IN [i \in 1..Len(senders) |->
          [ev |-> "message_status_update", to |-> resolveSocketId(senders[i]),
           roomId |-> roomId, userId |-> userId, status |-> "read"]]

\* mark_read resumed from markRoomAs(roomId, userId, 'read'), then from listByRoom
MarkReadDb(t) ==
    /\ t \in tasks /\ t.kind = "mark_read"
    /\ \/ /\ t.pc = "markRoomAs"
          /\ message_status' = markRoomAs(t.roomId, t.userId, "read")
          /\ tasks' = (tasks \ {t}) \cup {[t EXCEPT !.pc = "listByRoom"]}
          /\ emitted' = <<>>
       \/ /\ t.pc = "listByRoom"
          /\ UNCHANGED message_status
          /\ tasks' = tasks \ {t}
          /\ emitted' = ReadReceipts(t.roomId, t.userId)
       \/ /\ UNCHANGED message_status                   \* a query failed: caught
          /\ tasks' = tasks \ {t}
          /\ emitted' = <<>>
    /\ UNCHANGED <<hubVars, messages, roomVars, callVars>>
    /\ UNCHANGED mediaVars

\* The tail of send_private_message: receive_private_message to the first
\* socket registered for recipientId, if any, and the echo to the sender.
ReceivePrivateMessage(t) ==
    LET ev(to) == [ev |-> "receive_private_message", to |-> to, messageId |-> t.msgId,
                   senderId |-> t.userId, socketId |-> t.sid,
                   recipientId |-> t.recipientId, roomId |-> t.roomId]
    IN (IF resolveSocketId(t.recipientId) # NoSocket
          THEN <<ev(resolveSocketId(t.recipientId))>> ELSE <<>>) \o <<ev(t.sid)>>

PendingPrivateMessages ==
    Cardinality({t \in tasks : t.kind = "send_private_message" /\ t.pc = "create"})

\* socket.on('send_private_message'): with a roomId and a registered user the
\* message is persisted first; otherwise the handler emits at once.
SendPrivateMessage(s, recipientId, roomId) ==
    /\ s \notin disconnected
    /\ LET t == [kind |-> "send_private_message", sid |-> s, userId |-> UserIdOf(s),
                 recipientId |-> recipientId, roomId |-> roomId, msgId |-> NoMessage,
                 pc |-> "create"]
       IN IF roomId # NoRoom /\ UserIdOf(s) # NoUser
            THEN /\ t \notin tasks
                 /\ CanSuspend
                 /\ Len(messages) + PendingMessages + PendingPrivateMessages < MaxMessages
                 /\ tasks' = tasks \cup {t}
                 /\ emitted' = <<>>
            ELSE /\ tasks' = tasks
                 /\ emitted' = ReceivePrivateMessage(t)
    /\ UNCHANGED <<hubVars, chatVars, roomVars, callVars>>
    /\ UNCHANGED mediaVars

\* send_private_message resumed from queries.messages.create, then from
\* setStatus(messageId, recipientId, 'sent'); a failure of either is caught.
SendPrivateMessageDb(t) ==
    /\ t \in tasks /\ t.kind = "send_private_message"
    /\ \/ /\ t.pc = "create"
          /\ messages' = createMessage(t.roomId, t.userId)
          /\ IF t.recipientId # NoUser
               THEN /\ tasks' = (tasks \ {t}) \cup
                         {[t EXCEPT !.msgId = Len(messages) + 1, !.pc = "setStatus"]}
                    /\ emitted' = <<>>
               ELSE /\ tasks' = tasks \ {t}
                    /\ emitted' = ReceivePrivateMessage([t EXCEPT !.msgId = Len(messages) + 1])
          /\ UNCHANGED message_status
       \/ /\ t.pc = "create"                           \* the INSERT failed
          /\ tasks' = tasks \ {t}
          /\ emitted' = ReceivePrivateMessage(t)
          /\ UNCHANGED <<messages, message_status>>
       \/ /\ t.pc = "setStatus"
          /\ \/ message_status' = setStatus(t.msgId, t.recipientId, "sent")
             \/ message_status' = message_status       \* the upsert failed
          /\ tasks' = tasks \ {t}
          /\ emitted' = ReceivePrivateMessage(t)
          /\ UNCHANGED messages
    /\ UNCHANGED <<hubVars, roomVars, callVars>>
    /\ UNCHANGED mediaVars

TypingEvent(kind) == IF kind = "typing_start" THEN "user_typing" ELSE "user_stopped_typing"

\* socket.on('typing_start') and socket.on('typing_stop'): the same handler but
\* for the event; it returns at once without a registry entry or a roomId.
Typing(kind, s, roomId) ==
    /\ s \notin disconnected
    /\ IF ~CUHas(s) \/ roomId = NoRoom
         THEN tasks' = tasks
         ELSE LET t == [kind |-> kind, sid |-> s, userId |-> UserIdOf(s),
                        roomId |-> roomId, pc |-> "getParticipants"]
              IN /\ t \notin tasks
                 /\ CanSuspend
                 /\ tasks' = tasks \cup {t}
    /\ emitted' = <<>>
    /\ UNCHANGED <<hubVars, chatVars, roomVars, callVars>>
    /\ UNCHANGED mediaVars

TypingStart(s, roomId) == Typing("typing_start", s, roomId)

TypingStop(s, roomId) == Typing("typing_stop", s, roomId)

\* A faulty variant of TypingFallback, which C27 tells from it: no socket is
\* left out.
TypingFallback_ToAll(t) ==
    [ev |-> TypingEvent(t.kind), to |-> Broadcast, except |-> NoSocket,
     roomId |-> t.roomId, userId |-> t.userId, socketId |-> t.sid]

\* socket.broadcast.emit(event, {roomId, userId, username}): to every socket
\* but this one.
TypingFallback(t) ==
    [ev |-> TypingEvent(t.kind), to |-> Broadcast, except |-> t.sid,
     roomId |-> t.roomId, userId |-> t.userId, socketId |-> t.sid]

\* typing_start / typing_stop resumed from getParticipants: one event per
\* registered socket other than the sender whose user is a participant; when
\* the lookup failed, socket.broadcast.emit to every socket but the sender.
TypingEmit(t) ==
    /\ t \in tasks /\ t.kind \in {"typing_start", "typing_stop"}
    /\ \/ LET to == SelectSeq(SocketsOf(getParticipants(t.roomId)),
                              LAMBDA sid : sid # t.sid)
          IN emitted' = [i \in 1..Len(to) |->
                           [ev |-> TypingEvent(t.kind), to |-> to[i], roomId |-> t.roomId,
                            userId |-> t.userId, socketId |-> t.sid]]
       \/ emitted' = <<TypingFallback(t)>>
    /\ tasks' = tasks \ {t}
    /\ UNCHANGED <<hubVars, chatVars, roomVars, callVars>>
    /\ UNCHANGED mediaVars

\* ---------------------------------------------------- MediaServer: handlers
nonMediaVars == <<connectedUsers, activeCalls, disconnected, is_online, db_rooms,
                  chatAcks, messages, message_status, calls, call_participants>>

MediaRequestKinds == {"join_media_room", "create_transport", "connect_transport",
                      "produce", "consume", "resume_consumer"}

Pending(kind, pc) == Cardinality({t \in tasks : t.kind = kind /\ t.pc = pc})

NewPeer(peerId) ==
    [id |-> peerId, sendTransport |-> "null", recvTransport |-> "null",
     rtpCapabilities |-> "null", producers |-> <<>>, consumers |-> {}]

\* addPeer after getOrCreateRoom has returned room object x of `ros`.
addPeer(ros, x, roomId, peerId) ==
    /\ roomObjs' = [ros EXCEPT ![x].peers = RoomPeersSet(@, peerId, Len(peerObjs) + 1)]
    /\ peerObjs' = Append(peerObjs, NewPeer(peerId))
    /\ peers' = [peers EXCEPT ![peerId] = [roomId |-> roomId, peer |-> Len(peerObjs) + 1]]

\* socket.on('join_media_room'): with the room in this.rooms, getOrCreateRoom
\* returns it and the peer is added; without, the handler awaits createRouter.
JoinMediaRoom(s, roomId) ==
    /\ s \notin disconnected
    /\ IF rooms[roomId] # NoObj
         THEN /\ addPeer(roomObjs, rooms[roomId], roomId, s)
              /\ socketRooms' = socketRooms \cup {<<s, roomId>>}
              /\ tasks' = tasks
              /\ emitted' = <<Ack(s, "join_media_room", TRUE, "")>>
         ELSE /\ tasks' = tasks \cup {[kind |-> "join_media_room", sid |-> s,
                                       roomId |-> roomId, pc |-> "createRouter"]}
              /\ emitted' = <<>>
              /\ UNCHANGED <<peers, roomObjs, peerObjs, socketRooms>>
    /\ UNCHANGED <<rooms, producerObjs, consumerObjs, recordingObjs, ffmpegProcs,
                   sdpFiles, plainTransports, stopReturns>>
    /\ UNCHANGED nonMediaVars

\* join_media_room resumed from worker.createRouter: getOrCreateRoom sets the
\* new room into this.rooms (over any entry set meanwhile), addPeer adds the peer.
JoinMediaRoomCreateRouter(t) ==
    /\ t \in tasks /\ t.kind = "join_media_room"
    /\ \/ /\ rooms' = [rooms EXCEPT ![t.roomId] = Len(roomObjs) + 1]
          /\ addPeer(Append(roomObjs, [id |-> t.roomId, peers |-> <<>>,
                                       recording |-> NoObj, routerClosed |-> FALSE]),
                     Len(roomObjs) + 1, t.roomId, t.sid)
          /\ socketRooms' = IF t.sid \in disconnected THEN socketRooms
                            ELSE socketRooms \cup {<<t.sid, t.roomId>>}
          /\ emitted' = <<Ack(t.sid, "join_media_room", TRUE, "")>>
       \/ /\ emitted' = <<Ack(t.sid, "join_media_room", FALSE, "createRouter failed")>>
          /\ UNCHANGED <<rooms, peers, roomObjs, peerObjs, socketRooms>>
    /\ tasks' = tasks \ {t}
    /\ UNCHANGED <<producerObjs, consumerObjs, recordingObjs, ffmpegProcs, sdpFiles, plainTransports,
                   stopReturns>>
    /\ UNCHANGED nonMediaVars

\* The error setPeerRtpCapabilities / storePeerTransport / produce throw when the
\* room or the peer is not found ("" when both are).
LookupError(roomId, peerId) ==
    IF rooms[roomId] = NoObj THEN "Room not found"
    ELSE IF RoomPeersGet(rooms[roomId], peerId) = NoObj THEN "Peer not found"
    ELSE ""

\* socket.on('set_rtp_capabilities')
SetRtpCapabilities(s, roomId, rtpCapabilities) ==
    /\ s \notin disconnected
    /\ LET err == LookupError(roomId, s) IN
       IF err # ""
         THEN /\ emitted' = <<Ack(s, "set_rtp_capabilities", FALSE, err)>>
              /\ UNCHANGED peerObjs
         ELSE /\ emitted' = <<Ack(s, "set_rtp_capabilities", TRUE, "")>>
              /\ peerObjs' = [peerObjs EXCEPT
                   ![RoomPeersGet(rooms[roomId], s)].rtpCapabilities = rtpCapabilities]
    /\ UNCHANGED <<tasks, rooms, peers, roomObjs, producerObjs, consumerObjs,
                   recordingObjs, ffmpegProcs, sdpFiles, plainTransports, stopReturns, socketRooms>>
    /\ UNCHANGED nonMediaVars

\* socket.on('create_transport'): createWebRtcTransport looks the room up and
\* awaits the router.
CreateTransport(s, roomId, direction) ==
    /\ s \notin disconnected
    /\ IF rooms[roomId] = NoObj
         THEN /\ emitted' = <<Ack(s, "create_transport", FALSE, "Room not found")>>
              /\ tasks' = tasks
         ELSE /\ emitted' = <<>>
              /\ tasks' = tasks \cup {[kind |-> "create_transport", sid |-> s,
                                       roomId |-> roomId, direction |-> direction,
                                       room |-> rooms[roomId],
                                       pc |-> "createWebRtcTransport"]}
    /\ UNCHANGED mediaVars
    /\ UNCHANGED nonMediaVars

\* create_transport resumed from router.createWebRtcTransport: storePeerTransport
CreateTransportStore(t) ==
    /\ t \in tasks /\ t.kind = "create_transport"
    /\ \/ /\ ~roomObjs[t.room].routerClosed
          /\ LET err == LookupError(t.roomId, t.sid) IN
             IF err # ""
               THEN /\ emitted' = <<Ack(t.sid, "create_transport", FALSE, err)>>
                    /\ UNCHANGED peerObjs
               ELSE /\ emitted' = <<Ack(t.sid, "create_transport", TRUE, "")>>
                    /\ peerObjs' =
                         IF t.direction = "send"
                           THEN [peerObjs EXCEPT
                                  ![RoomPeersGet(rooms[t.roomId], t.sid)].sendTransport = "open"]
                           ELSE [peerObjs EXCEPT
                                  ![RoomPeersGet(rooms[t.roomId], t.sid)].recvTransport = "open"]
       \/ /\ emitted' = <<Ack(t.sid, "create_transport", FALSE,
                              "createWebRtcTransport failed")>>
          /\ UNCHANGED peerObjs
    /\ tasks' = tasks \ {t}
    /\ UNCHANGED <<rooms, peers, roomObjs, producerObjs, consumerObjs, recordingObjs,
                   ffmpegProcs, sdpFiles, plainTransports, stopReturns, socketRooms>>
    /\ UNCHANGED nonMediaVars

\* socket.on('leave_media_room')
LeaveMediaRoom(s, roomId) ==
    /\ s \notin disconnected
    /\ socketRooms' = socketRooms \ {<<s, roomId>>}
    /\ removePeer(s)
    /\ tasks' = tasks \cup RemovePeerTasks(s)
    /\ emitted' = ToRoom(socketRooms', s, roomId, "peer_left")
    /\ UNCHANGED nonMediaVars

\* ------------------------------------------------ MediaServer: produce, record
\* A faulty variant of peersWithProducers, which C3 tells from it: every peer of
\* the room is counted.
peersWithProducers_AllPeers(pobjs, entries) == Len(entries)

\* checkAndStartAutoRecording: the peers of the room with at least one producer
peersWithProducers(pobjs, entries) ==
    Cardinality({i \in 1..Len(entries) : pobjs[entries[i].peer].producers # <<>>})

\* A faulty variant of AlreadyRecording, which C25 tells from it: the recording
\* of the room is not looked at.
AlreadyRecording_Never(x) == FALSE

\* checkAndStartAutoRecording: if (room.recording)
AlreadyRecording(x) == roomObjs[x].recording # NoObj

\* startRecording: any peer of the room has a video producer
hasVideo(pobjs, prods, entries) ==
    \E i \in 1..Len(entries) :
       \E j \in 1..Len(pobjs[entries[i].peer].producers) :
          prods[pobjs[entries[i].peer].producers[j]].kind = "video"

\* The place of startRecording's two nested loops over room.peers and
\* peer.producers: `cur` is the peer object whose producers are being walked,
\* `ord` the place of its entry in room.peers, `idx` the producers of `cur`
\* already passed.  Both Maps are walked live: entries set meanwhile are met,
\* entries deleted meanwhile are not.
RECURSIVE NextTap(_, _, _, _, _)
NextTap(pobjs, entries, ord, cur, idx) ==
    IF cur # NoObj /\ idx < Len(pobjs[cur].producers)
      THEN [done |-> FALSE, ord |-> ord, cur |-> cur, idx |-> idx]
    ELSE LET later == {i \in 1..Len(entries) : entries[i].ord > ord} IN
         IF later = {}
           THEN [done |-> TRUE, ord |-> ord, cur |-> cur, idx |-> idx]
           ELSE LET i == CHOOSE i \in later : \A j \in later : i <= j
                IN NextTap(pobjs, entries, entries[i].ord, entries[i].peer, 0)

\* The events and the ack of a produce handler whose mediaServer.produce returned.
Produced(t, members) ==
    LET evs == ToRoom(members, t.sid, t.roomId, "new_producer") IN
    [i \in 1..Len(evs) |->
       [ev |-> "new_producer", to |-> evs[i].to, peerId |-> t.sid,
        roomId |-> t.roomId, producerId |-> t.pid]]
      \o <<Ack(t.sid, "produce", TRUE, "")>>

\* socket.on('produce'): mediaServer.produce looks up the room and the peer and
\* awaits peer.sendTransport.produce.
Produce(s, roomId, kind) ==
    /\ s \notin disconnected
    /\ LET err == LookupError(roomId, s)
           peer == RoomPeersGet(rooms[roomId], s)
       IN IF err # ""
            THEN /\ emitted' = <<Ack(s, "produce", FALSE, err)>>
                 /\ tasks' = tasks
          ELSE IF peerObjs[peer].sendTransport = "null"
            THEN /\ emitted' = <<Ack(s, "produce", FALSE, "TypeError")>>
                 /\ tasks' = tasks
          ELSE /\ emitted' = <<>>
               /\ tasks' = tasks \cup
                    {[kind |-> "produce", sid |-> s, roomId |-> roomId, mkind |-> kind,
                      peer |-> peer, pc |-> "produce", room |-> NoObj, ord |-> 0,
                      cur |-> NoObj, idx |-> 0, rec |-> NoObj, i |-> 0,
                      pid |-> NoObj]}
    /\ UNCHANGED mediaVars
    /\ UNCHANGED nonMediaVars

\* produce resumed from sendTransport.produce: the producer is set into
\* peer.producers; checkAndStartAutoRecording then returns, or startRecording
\* sets room.recording and enters its loop, suspended in the first
\* createRecordingInput.
ProduceInstall(t) ==
    /\ t \in tasks /\ t.kind = "produce" /\ t.pc = "produce"
    /\ \/ /\ emitted' = <<Ack(t.sid, "produce", FALSE, "produce failed")>>
          /\ tasks' = tasks \ {t}
          /\ UNCHANGED <<roomObjs, peerObjs, producerObjs, recordingObjs>>
       \/ LET pid == Len(producerObjs) + 1
              pobjs == [peerObjs EXCEPT ![t.peer].producers = Append(@, pid)]
              prods == Append(producerObjs,
                         [peerId |-> t.sid, kind |-> t.mkind, closed |-> FALSE])
              x == rooms[t.roomId]
          IN /\ peerObjs' = pobjs
             /\ producerObjs' = prods
             /\ IF x # NoObj /\ ~AlreadyRecording(x)
                   /\ peersWithProducers(pobjs, roomObjs[x].peers) >= 2
                  THEN LET pos == NextTap(pobjs, roomObjs[x].peers, 0, NoObj, 0) IN
                       /\ recordingObjs' = Append(recordingObjs,
                            [roomId |-> t.roomId,
                             hasVideo |-> hasVideo(pobjs, prods, roomObjs[x].peers),
                             ffmpegProcess |-> NoObj, taps |-> <<>>])
                       /\ roomObjs' = [roomObjs EXCEPT
                                         ![x].recording = Len(recordingObjs) + 1]
                       /\ tasks' = (tasks \ {t}) \cup
                            {[t EXCEPT !.pc = "tap", !.room = x, !.ord = pos.ord,
                                       !.cur = pos.cur, !.idx = pos.idx, !.pid = pid]}
                       /\ emitted' = <<>>
                  ELSE /\ UNCHANGED <<recordingObjs, roomObjs>>
                       /\ tasks' = tasks \ {t}
                       /\ emitted' = Produced([t EXCEPT !.pid = pid], socketRooms)
    /\ UNCHANGED <<rooms, peers, consumerObjs, ffmpegProcs, sdpFiles, plainTransports, stopReturns,
                   socketRooms>>
    /\ UNCHANGED nonMediaVars

\* A faulty variant of Tap, which C32 tells from it: the consumer is created
\* running.
Tap_Running(rec, pid, peerId, port, transport) ==
    [producerId |-> pid, kind |-> producerObjs[pid].kind, peerId |-> peerId,
     sdpFile |-> [rec |-> rec, kind |-> producerObjs[pid].kind, peerId |-> peerId],
     closed |-> FALSE, paused |-> FALSE, port |-> port, transport |-> transport]

\* The input createRecordingInput stores for producer pid of peerId when
\* room.recording is rec: the consumer (paused, open), its plain transport, the
\* port the transport sends to and the .sdp file that names the port.
Tap(rec, pid, peerId, port, transport) ==
    [producerId |-> pid, kind |-> producerObjs[pid].kind, peerId |-> peerId,
     sdpFile |-> [rec |-> rec, kind |-> producerObjs[pid].kind, peerId |-> peerId],
     closed |-> FALSE, paused |-> TRUE, port |-> port, transport |-> transport]

HasAudioInput(taps) == \E i \in 1..Len(taps) : taps[i].kind = "audio"

\* The step at which createRecordingInput ends: past its last await ("ok") or
\* in its catch, from the rejection of createPlainTransport, connect or consume.
TapOutcomes == {"ok", "createPlainTransport", "connect", "consume"}

\* spawn('ffmpeg', ...): the process starts ("ok"), the child emits 'error'
\* (the executable cannot be run), or spawn throws.
SpawnOutcomes == {"ok", "error", "throw"}

\* startCombinedRecording's '-i' arguments: every audio input, then every video
\* input when recording.hasVideo.
FfmpegInputs(recording) ==
    LET audio == SelectSeq(recording.taps, LAMBDA e : e.kind = "audio")
        video == SelectSeq(recording.taps, LAMBDA e : e.kind = "video")
        files(q) == [i \in 1..Len(q) |-> q[i].sdpFile]
    IN files(audio) \o (IF recording.hasVideo THEN files(video) ELSE <<>>)

\* createRecordingInput resumed from createPlainTransport / connect / consume,
\* the three awaits taken as one step that ends with `outcome`; `port` is the
\* rtpPort it picked.  The plain transport exists unless createPlainTransport
\* rejected.  On "ok" it reads room.recording.id (a TypeError, caught, when
\* room.recording is null), writes the .sdp file and pushes the transport, the
\* consumer and the input.  The loop goes on to the next producer; past the
\* last one startCombinedRecording reads room.recording (a TypeError, not
\* caught, when null), returns when it has no audio input, and otherwise
\* spawns ffmpeg, which ends with `spawn`.
RecordingTap(t, outcome, port, spawn) ==
    /\ t \in tasks /\ t.kind = "produce" /\ t.pc = "tap"
    /\ roomObjs[t.room].routerClosed => outcome = "createPlainTransport"
    /\ producerObjs[peerObjs[t.cur].producers[t.idx + 1]].closed => outcome # "ok"
    /\ LET pid == peerObjs[t.cur].producers[t.idx + 1]
           rec == roomObjs[t.room].recording
           pos == NextTap(peerObjs, roomObjs[t.room].peers, t.ord, t.cur, t.idx + 1)
           ok == outcome = "ok"
           tap == Tap(rec, pid, peerObjs[t.cur].id, port, Len(plainTransports) + 1)
           recs == IF ok /\ rec # NoObj
                     THEN [recordingObjs EXCEPT ![rec].taps = Append(@, tap)]
                     ELSE recordingObjs
       IN /\ plainTransports' =
               IF outcome # "createPlainTransport"
                 THEN Append(plainTransports,
                             [room |-> t.room, recording |-> rec, closed |-> FALSE])
                 ELSE plainTransports
          /\ sdpFiles' = IF ok /\ rec # NoObj THEN sdpFiles \cup {tap.sdpFile}
                                             ELSE sdpFiles
          /\ IF ~pos.done
               THEN /\ recordingObjs' = recs
                    /\ tasks' = (tasks \ {t}) \cup
                         {[t EXCEPT !.ord = pos.ord, !.cur = pos.cur,
                                    !.idx = pos.idx]}
                    /\ emitted' = <<>>
                    /\ UNCHANGED ffmpegProcs
             ELSE IF rec = NoObj
               THEN /\ recordingObjs' = recs
                    /\ tasks' = tasks \ {t}
                    /\ emitted' = <<Ack(t.sid, "produce", FALSE, "TypeError")>>
                    /\ UNCHANGED ffmpegProcs
             ELSE IF ~HasAudioInput(recs[rec].taps)
               THEN /\ recordingObjs' = recs
                    /\ tasks' = tasks \ {t}
                    /\ emitted' = Produced(t, socketRooms)
                    /\ UNCHANGED ffmpegProcs
             ELSE IF spawn = "throw"
               THEN /\ ffmpegProcs' = Append(ffmpegProcs,
                                        [recording |-> rec, signals |-> <<>>,
                                         launched |-> FALSE,
                                         inputs |-> FfmpegInputs(recs[rec])])
                    /\ recordingObjs' = recs
                    /\ tasks' = tasks \ {t}
                    /\ emitted' = <<Ack(t.sid, "produce", FALSE, "spawn failed")>>
             ELSE /\ ffmpegProcs' = Append(ffmpegProcs,
                                      [recording |-> rec, signals |-> <<>>,
                                       launched |-> spawn = "ok",
                                       inputs |-> FfmpegInputs(recs[rec])])
                  /\ recordingObjs' = [recs EXCEPT
                                         ![rec].ffmpegProcess = Len(ffmpegProcs) + 1]
                  /\ tasks' = (tasks \ {t}) \cup
                       {[t EXCEPT !.pc = "resume", !.rec = rec, !.i = 1]}
                  /\ emitted' = <<>>
    /\ UNCHANGED <<rooms, peers, roomObjs, peerObjs, producerObjs, consumerObjs,
                   stopReturns, socketRooms>>
    /\ UNCHANGED nonMediaVars

\* startCombinedRecording resumed from its 1 s wait and, for i > 1, from the
\* consumer.resume() before: consumer i of recording.consumers is resumed (a
\* closed one rejects, which fails the produce); past the last one produce
\* returns and the handler emits new_producer and acks.
RecordingResume(t) ==
    /\ t \in tasks /\ t.kind = "produce" /\ t.pc = "resume"
    /\ \/ /\ ~recordingObjs[t.rec].taps[t.i].closed
          /\ recordingObjs' = [recordingObjs EXCEPT ![t.rec].taps[t.i].paused = FALSE]
          /\ IF t.i < Len(recordingObjs[t.rec].taps)
               THEN /\ tasks' = (tasks \ {t}) \cup {[t EXCEPT !.i = t.i + 1]}
                    /\ emitted' = <<>>
               ELSE /\ tasks' = tasks \ {t}
                    /\ emitted' = Produced(t, socketRooms)
       \/ /\ UNCHANGED recordingObjs
          /\ tasks' = tasks \ {t}
          /\ emitted' = <<Ack(t.sid, "produce", FALSE, "resume failed")>>
    /\ UNCHANGED <<rooms, peers, roomObjs, peerObjs, producerObjs, consumerObjs,
                   ffmpegProcs, sdpFiles, plainTransports, stopReturns, socketRooms>>
    /\ UNCHANGED nonMediaVars

\* --------------------------------------------------- MediaServer: consume
\* consume's search of room.peers for the producer: the id of the first peer
\* whose producers hold it (NoSocket when none does).
ProducerOwnerId(x, producerId) ==
    LET hit == SelectSeq(roomObjs[x].peers,
                         LAMBDA e : producerId \in Range(peerObjs[e.peer].producers))
    IN IF hit = <<>> THEN NoSocket ELSE hit[1].peerId

\* room.router.canConsume({producerId, rtpCapabilities}): the capabilities are
\* null (never set), or name the kinds of media the client can receive.
canConsume(producerId, rtpCapabilities) ==
    rtpCapabilities = "all" \/ rtpCapabilities = producerObjs[producerId].kind

\* A faulty variant of consume, which C2 tells from it: the check of the
\* producer's owner is missing.
consume_NoOwnerCheck(roomId, peerId, producerId) ==
    IF LookupError(roomId, peerId) # "" THEN LookupError(roomId, peerId)
    ELSE IF ProducerOwnerId(rooms[roomId], producerId) = NoSocket
      THEN "Producer not found"
    ELSE IF ~canConsume(producerId,
                        peerObjs[RoomPeersGet(rooms[roomId], peerId)].rtpCapabilities)
      THEN "Cannot consume this producer"
    ELSE IF peerObjs[RoomPeersGet(rooms[roomId], peerId)].recvTransport = "null"
      THEN "TypeError"
    ELSE ""

\* MediaServer.consume up to its await: the message of the error it throws
\* ("" when it goes on to recvTransport.consume).
consume(roomId, peerId, producerId) ==
    IF LookupError(roomId, peerId) # "" THEN LookupError(roomId, peerId)
    ELSE IF ProducerOwnerId(rooms[roomId], producerId) = NoSocket
      THEN "Producer not found"
    ELSE IF ProducerOwnerId(rooms[roomId], producerId) = peerId
      THEN "Cannot consume own producer"
    ELSE IF ~canConsume(producerId,
                        peerObjs[RoomPeersGet(rooms[roomId], peerId)].rtpCapabilities)
      THEN "Cannot consume this producer"
    ELSE IF peerObjs[RoomPeersGet(rooms[roomId], peerId)].recvTransport = "null"
      THEN "TypeError"
    ELSE ""

\* socket.on('consume')
Consume(s, roomId, producerId) ==
    /\ s \notin disconnected
    /\ IF consume(roomId, s, producerId) # ""
         THEN /\ emitted' = <<Ack(s, "consume", FALSE, consume(roomId, s, producerId))>>
              /\ tasks' = tasks
         ELSE /\ emitted' = <<>>
              /\ tasks' = tasks \cup
                   {[kind |-> "consume", sid |-> s, roomId |-> roomId,
                     producerId |-> producerId,
                     peer |-> RoomPeersGet(rooms[roomId], s), pc |-> "consume"]}
    /\ UNCHANGED mediaVars
    /\ UNCHANGED nonMediaVars

\* consume resumed from recvTransport.consume: the consumer, paused, is set into
\* peer.consumers.
ConsumeInstall(t) ==
    /\ t \in tasks /\ t.kind = "consume"
    /\ \/ /\ ~producerObjs[t.producerId].closed
          /\ peerObjs[t.peer].recvTransport = "open"
          /\ consumerObjs' = Append(consumerObjs,
               [producerId |-> t.producerId, peer |-> t.peer, peerId |-> t.sid,
                paused |-> TRUE, closed |-> FALSE])
          /\ peerObjs' = [peerObjs EXCEPT
                            ![t.peer].consumers = @ \cup {Len(consumerObjs) + 1}]
          /\ emitted' = <<Ack(t.sid, "consume", TRUE, "")>>
       \/ /\ UNCHANGED <<consumerObjs, peerObjs>>
          /\ emitted' = <<Ack(t.sid, "consume", FALSE, "consume failed")>>
    /\ tasks' = tasks \ {t}
    /\ UNCHANGED <<rooms, peers, roomObjs, producerObjs, recordingObjs, ffmpegProcs,
                   sdpFiles, plainTransports, stopReturns, socketRooms>>
    /\ UNCHANGED nonMediaVars

\* The transport of a peer object in a direction: "null", "open" or "closed".
TransportOf(peer, direction) ==
    IF direction = "send" THEN peerObjs[peer].sendTransport
                          ELSE peerObjs[peer].recvTransport

\* connectTransport's walk of room.peers for the transport with id transportId
\* (a transport id names the peer object it was stored on and the direction).
TransportFound(x, transportId) ==
    \E i \in 1..Len(roomObjs[x].peers) :
       /\ roomObjs[x].peers[i].peer = transportId[1]
       /\ TransportOf(transportId[1], transportId[2]) # "null"

\* socket.on('connect_transport'): connectTransport looks the room and the
\* transport up and awaits transport.connect.
ConnectTransport(s, roomId, transportId) ==
    /\ s \notin disconnected
    /\ IF rooms[roomId] = NoObj
         THEN /\ emitted' = <<Ack(s, "connect_transport", FALSE, "Room not found")>>
              /\ tasks' = tasks
       ELSE IF ~TransportFound(rooms[roomId], transportId)
         THEN /\ emitted' = <<Ack(s, "connect_transport", FALSE, "Transport not found")>>
              /\ tasks' = tasks
       ELSE /\ emitted' = <<>>
            /\ tasks' = tasks \cup {[kind |-> "connect_transport", sid |-> s,
                                     roomId |-> roomId, transportId |-> transportId,
                                     pc |-> "connect"]}
    /\ UNCHANGED mediaVars
    /\ UNCHANGED nonMediaVars

\* connect_transport resumed from transport.connect, which a closed transport
\* rejects.
ConnectTransportAck(t) ==
    /\ t \in tasks /\ t.kind = "connect_transport"
    /\ \/ /\ TransportOf(t.transportId[1], t.transportId[2]) = "open"
          /\ emitted' = <<Ack(t.sid, "connect_transport", TRUE, "")>>
       \/ emitted' = <<Ack(t.sid, "connect_transport", FALSE, "connect failed")>>
    /\ tasks' = tasks \ {t}
    /\ UNCHANGED mediaVars
    /\ UNCHANGED nonMediaVars

\* A faulty variant of resumeConsumer, which C22 tells from it: the consumer is
\* looked up among the consumers of every peer.
resumeConsumer_AnyPeer(roomId, peerId, consumerId) ==
    IF LookupError(roomId, peerId) # "" THEN LookupError(roomId, peerId)
    ELSE IF consumerId \notin 1..Len(consumerObjs) THEN "Consumer not found"
    ELSE ""

\* MediaServer.resumeConsumer up to its await: the message of the error it
\* throws ("" when it goes on to consumer.resume()).
resumeConsumer(roomId, peerId, consumerId) ==
    IF LookupError(roomId, peerId) # "" THEN LookupError(roomId, peerId)
    ELSE IF consumerId \notin peerObjs[RoomPeersGet(rooms[roomId], peerId)].consumers
      THEN "Consumer not found"
    ELSE ""

\* socket.on('resume_consumer')
ResumeConsumer(s, roomId, consumerId) ==
    /\ s \notin disconnected
    /\ IF resumeConsumer(roomId, s, consumerId) # ""
         THEN /\ emitted' = <<Ack(s, "resume_consumer", FALSE,
                                  resumeConsumer(roomId, s, consumerId))>>
              /\ tasks' = tasks
         ELSE /\ emitted' = <<>>
              /\ tasks' = tasks \cup {[kind |-> "resume_consumer", sid |-> s,
                                       roomId |-> roomId, consumerId |-> consumerId,
                                       pc |-> "resume"]}
    /\ UNCHANGED mediaVars
    /\ UNCHANGED nonMediaVars

\* resume_consumer resumed from consumer.resume(), which a closed consumer
\* rejects.
ResumeConsumerAck(t) ==
    /\ t \in tasks /\ t.kind = "resume_consumer"
    /\ \/ /\ ~consumerObjs[t.consumerId].closed
          /\ consumerObjs' = [consumerObjs EXCEPT ![t.consumerId].paused = FALSE]
          /\ emitted' = <<Ack(t.sid, "resume_consumer", TRUE, "")>>
       \/ /\ UNCHANGED consumerObjs
          /\ emitted' = <<Ack(t.sid, "resume_consumer", FALSE, "resume failed")>>
    /\ tasks' = tasks \ {t}
    /\ UNCHANGED <<rooms, peers, roomObjs, peerObjs, producerObjs, recordingObjs,
                   ffmpegProcs, sdpFiles, plainTransports, stopReturns, socketRooms>>
    /\ UNCHANGED nonMediaVars

\* MediaServer.getProducers(roomId, excludePeerId): the producers of the other
\* peers of the room ([] when the room is not found).
getProducers(roomId, excludePeerId) ==
    IF rooms[roomId] = NoObj THEN {}
    ELSE LET entries == roomObjs[rooms[roomId]].peers IN
         UNION {{[producerId |-> pid, peerId |-> entries[i].peerId,
                  kind |-> producerObjs[pid].kind] :
                   pid \in Range(peerObjs[entries[i].peer].producers)} :
                  i \in {j \in 1..Len(entries) : entries[j].peerId # excludePeerId}}

\* socket.on('get_producers')
GetProducers(s, roomId) ==
    /\ s \notin disconnected
    /\ emitted' = <<[ev |-> "ack", to |-> s, request |-> "get_producers",
                     success |-> TRUE, message |-> "",
                     producers |-> getProducers(roomId, s)]>>
    /\ UNCHANGED tasks
    /\ UNCHANGED mediaVars
    /\ UNCHANGED nonMediaVars

\* --------------------------------------------------------------------- Init
Init ==
    /\ connectedUsers = <<>>
    /\ activeCalls = [r \in RoomIds |-> NoCall]
    /\ disconnected = {}
    /\ tasks = {}
    /\ emitted = <<>>
    /\ is_online = [u \in Users |-> FALSE]
    /\ db_rooms = {[id |-> "g1", type |-> "group", members |-> {"u1", "u2"}]}
    /\ messages = <<>>
    /\ message_status = [m \in MessageIds |-> [u \in Users |-> "none"]]
    /\ calls = <<>>
    /\ call_participants = {}
    /\ chatAcks = {}
    /\ rooms = [r \in MediaRoomIds |-> NoObj]
    /\ peers = [s \in Sessions |-> NoPeerInfo]
    /\ roomObjs = <<>>
    /\ peerObjs = <<>>
    /\ producerObjs = <<>>
    /\ consumerObjs = <<>>
    /\ recordingObjs = <<>>
    /\ ffmpegProcs = <<>>
    /\ sdpFiles = {}
    /\ plainTransports = <<>>
    /\ stopReturns = {}
    /\ socketRooms = {}

\* ----------------------------------------------------------- specifications
PresenceUsers == {"u1", "u2"}
PresenceSessions == {"s1", "s2"}

NextPresence ==
    \/ \E u \in PresenceUsers : AuthLogin(u)
    \/ \E s \in PresenceSessions, u \in PresenceUsers \cup {NoUser} : RegisterUser(s, u)
    \/ \E t \in tasks : RegisterUserDb(t)
    \/ \E s \in PresenceSessions : Disconnect(s)
    \/ \E t \in tasks : DisconnectDb(t)
    \/ \E s \in PresenceSessions : GetOnlineUsers(s)

SpecPresence == Init /\ [][NextPresence]_vars

\* The signalling requests the call model draws: s1 (registered as u1) addresses
\* u2 by user id, s2 (registered as u2) addresses s1 by socket id.
CallRegistrations == {<<"s1", "u1">>, <<"s2", "u2">>}
CallInputs == {<<"s1", "u2">>, <<"s2", "s1">>}
CallRooms == {"g1"}

NextCalls ==
    \/ \E su \in CallRegistrations : ~CUHas(su[1]) /\ RegisterUser(su[1], su[2])
    \/ \E t \in tasks : RegisterUserDb(t)
    \/ \E i \in CallInputs, r \in CallRooms : CallUser(i[1], i[2], r)
    \/ \E t \in tasks : CallUserCreate(t)
    \/ \E t \in tasks : CallUserAddParticipant(t)
    \/ \E i \in CallInputs, r \in CallRooms : AnswerCall(i[1], i[2], r)
    \/ \E t \in tasks : AnswerCallDb(t)
    \/ \E i \in CallInputs, r \in CallRooms : RejectCall(i[1], i[2], r)
    \/ \E t \in tasks : RejectCallDb(t)
    \/ \E i \in CallInputs, r \in CallRooms : EndCall(i[1], i[2], r)
    \/ \E t \in tasks : EndCallDb(t)
    \/ \E i \in CallInputs : IceCandidate(i[1], i[2])

SpecCalls == Init /\ [][NextCalls]_vars

\* The start_private_chat requests drawn: s1 asks as u1, s2 asks as u2, each for
\* a chat with either user (itself included).
RoomRequesters == {<<"s1", "u1">>, <<"s2", "u2">>}
RoomUsers == {"u1", "u2"}

NextRooms ==
    \/ \E q \in RoomRequesters, b \in RoomUsers : StartPrivateChat(q[1], q[2], b)
    \/ \E t \in tasks : FindOrCreatePrivateSelect(t)
    \/ \E t \in tasks : FindOrCreatePrivateTransaction(t)
    \/ \E t \in tasks : StartPrivateChatAck(t)

SpecRooms == Init /\ [][NextRooms]_vars

\* The chat model's sessions: s1 registers as u1 and s2 as u2, the two members of
\* the group room g1.
ChatRegistrations == {<<"s1", "u1">>, <<"s2", "u2">>}
ChatSessions == {"s1", "s2"}
ChatRooms == {"g1"}

NextChat ==
    \/ \E su \in ChatRegistrations : ~CUHas(su[1]) /\ RegisterUser(su[1], su[2])
    \/ \E t \in tasks : RegisterUserDb(t)
    \/ \E s \in ChatSessions, r \in ChatRooms : SendGroupMessage(s, r)
    \/ \E t \in tasks : SendGroupMessageCreate(t)
    \/ \E t \in tasks : SendGroupMessageStatus(t)
    \/ \E t \in tasks : SendGroupMessageEmit(t)
    \/ \E s \in ChatSessions, m \in 1..Len(messages) : MessageDelivered(s, m)
    \/ \E t \in tasks : MessageDeliveredDb(t)
    \/ \E s \in ChatSessions, r \in ChatRooms : MarkRead(s, r)
    \/ \E t \in tasks : MarkReadDb(t)

SpecChat == Init /\ [][NextChat]_vars

\* The fan-out model: s1 registers as u1 and s2 as u2, the members of g1; s3
\* registers as u3, who is not a member.  Registered or not, s1 sends group
\* messages and starts typing, s3 sends private messages to u2, stops typing
\* and calls without a roomId.
FanoutRegistrations == {<<"s1", "u1">>, <<"s2", "u2">>, <<"s3", "u3">>}
FanoutGroupSenders == {"s1"}
FanoutPrivateSenders == {"s3"}
FanoutRecipients == {"u2"}

NextFanout ==
    \/ \E su \in FanoutRegistrations : ~CUHas(su[1]) /\ RegisterUser(su[1], su[2])
    \/ \E t \in tasks : RegisterUserDb(t)
    \/ \E s \in FanoutGroupSenders, r \in ChatRooms : SendGroupMessage(s, r)
    \/ \E t \in tasks : SendGroupMessageCreate(t)
    \/ \E t \in tasks : SendGroupMessageStatus(t)
    \/ \E t \in tasks : SendGroupMessageEmit(t)
    \/ \E s \in FanoutPrivateSenders, u \in FanoutRecipients, r \in ChatRooms :
          SendPrivateMessage(s, u, r)
    \/ \E t \in tasks : SendPrivateMessageDb(t)
    \/ \E s \in FanoutGroupSenders, r \in ChatRooms : TypingStart(s, r)
    \/ \E s \in FanoutPrivateSenders, r \in ChatRooms : TypingStop(s, r)
    \/ \E t \in tasks : TypingEmit(t)
    \/ \E s \in FanoutPrivateSenders, u \in FanoutRecipients : CallUser(s, u, NoRoom)

SpecFanout == Init /\ [][NextFanout]_vars

\* The history model: the database holds MaxMessages messages of the rooms in
\* HistoryRooms, sent by the members of g1, with any status rows of these
\* members; s1 asks for the history of the rooms.
HistoryRooms == {"g1", "p1"}
HistorySenders == {"u1", "u2"}
HistorySessions == {"s1"}
Statuses == {"sent", "delivered", "read"}

InitHistory ==
    /\ connectedUsers = <<>>
    /\ activeCalls = [r \in RoomIds |-> NoCall]
    /\ disconnected = {}
    /\ tasks = {}
    /\ emitted = <<>>
    /\ is_online = [u \in Users |-> FALSE]
    /\ db_rooms = {[id |-> "g1", type |-> "group", members |-> {"u1", "u2"}]}
    /\ messages \in [MessageIds -> [room_id : HistoryRooms, sender_id : HistorySenders]]
    /\ message_status \in
          {f \in [MessageIds -> [Users -> Statuses \cup {"none"}]] :
              \A m \in MessageIds, u \in Users \ HistorySenders : f[m][u] = "none"}
    /\ calls = <<>>
    /\ call_participants = {}
    /\ chatAcks = {}
    /\ rooms = [r \in MediaRoomIds |-> NoObj]
    /\ peers = [s \in Sessions |-> NoPeerInfo]
    /\ roomObjs = <<>>
    /\ peerObjs = <<>>
    /\ producerObjs = <<>>
    /\ consumerObjs = <<>>
    /\ recordingObjs = <<>>
    /\ ffmpegProcs = <<>>
    /\ sdpFiles = {}
    /\ plainTransports = <<>>
    /\ stopReturns = {}
    /\ socketRooms = {}

NextHistory ==
    \/ \E s \in HistorySessions, r \in HistoryRooms : GetMessages(s, r)
    \/ \E t \in tasks : GetMessagesAck(t)

SpecHistory == InitHistory /\ [][NextHistory]_vars

\* The transaction model: three calls of db.transaction, each await of which
\* resolves or rejects.
TransactionIds == {"t1", "t2", "t3"}

NextTransaction ==
    \/ \E id \in TransactionIds :
          /\ TransactionCall(id)
          /\ emitted' = <<>>
          /\ UNCHANGED <<hubVars, chatVars, roomVars, callVars>>
          /\ UNCHANGED mediaVars
    \/ \E t \in tasks, ok \in BOOLEAN : TransactionConnect(t, ok)
    \/ \E t \in tasks, ok \in BOOLEAN : TransactionBegin(t, ok)
    \/ \E t \in tasks, ok \in BOOLEAN : TransactionCallback(t, ok)
    \/ \E t \in tasks, ok \in BOOLEAN : TransactionCommit(t, ok)
    \/ \E t \in tasks, ok \in BOOLEAN : TransactionRollback(t, ok)

SpecTransaction == Init /\ [][NextTransaction]_vars

\* ---- the media specifications
\* The timer of the SIGKILL fires in the specifications that look at the
\* signals a muxer gets (SpecTaps, SpecShutdown); in the others it stays pending.
\* The rtpPort of every createRecordingInput where the ports are not looked at.
RtpPort == 20000

\* Where the plain transports are not looked at, a tap that fails fails in
\* createPlainTransport.
TapResults == {"ok", "createPlainTransport"}

\* A client sends its next media request once the last one is acknowledged,
\* and at most MaxMediaInFlight media requests are suspended at a time.
MaxMediaInFlight == 2

Idle(s) ==
    /\ ~\E t \in tasks : t.kind \in MediaRequestKinds /\ t.sid = s
    /\ Cardinality({t \in tasks : t.kind \in MediaRequestKinds}) < MaxMediaInFlight

\* The join_media_room requests socket s has sent.
Joins(s) ==
    Cardinality({i \in 1..Len(peerObjs) : peerObjs[i].id = s})
      + Cardinality({t \in tasks : t.kind = "join_media_room" /\ t.sid = s})

\* Socket s may send produce: its peer has produced fewer than MaxProducersPerPeer.
MaxProducersPerPeer == 1

MayProduce(s, roomId) ==
    LookupError(roomId, s) = ""
      => Len(peerObjs[RoomPeersGet(rooms[roomId], s)].producers) < MaxProducersPerPeer

\* The recording model: s1 and s2 join one media room, open a send transport,
\* produce audio, leave, and s1 may come back once; s2 may disconnect.
MaxRejoins == 1
RecordingSessions == {"s1", "s2"}
RecordingDisconnects == {"s2"}

RecordingJoinLimit(s) == IF s = "s1" THEN 1 + MaxRejoins ELSE 1

NextRecording ==
    \/ \E s \in RecordingSessions, r \in MediaRoomIds :
          Idle(s) /\ Joins(s) < RecordingJoinLimit(s) /\ JoinMediaRoom(s, r)
    \/ \E t \in tasks : JoinMediaRoomCreateRouter(t)
    \/ \E s \in RecordingSessions, r \in MediaRoomIds :
          Idle(s) /\ CreateTransport(s, r, "send")
    \/ \E t \in tasks : CreateTransportStore(t)
    \/ \E s \in RecordingSessions, r \in MediaRoomIds :
          Idle(s) /\ MayProduce(s, r) /\ Produce(s, r, "audio")
    \/ \E t \in tasks : ProduceInstall(t)
    \/ \E t \in tasks, o \in TapResults : RecordingTap(t, o, RtpPort, "ok")
    \/ \E t \in tasks : RecordingResume(t)
    \/ \E s \in RecordingSessions, r \in MediaRoomIds : LeaveMediaRoom(s, r)
    \/ \E s \in RecordingDisconnects : Disconnect(s)
    \/ \E t \in tasks : StopRecordingTimer(t)

SpecRecording == Init /\ [][NextRecording]_vars

\* The stop model: s1 and s2 join once, open a send transport and produce
\* audio; s3 joins once and never produces; all may leave and s3 may
\* disconnect.  The 2 s timer of a suspended stopRecording fires.
StopSessions == {"s1", "s2", "s3"}
StopProducers == {"s1", "s2"}
StopDisconnects == {"s3"}

NextStop ==
    \/ \E s \in StopSessions, r \in MediaRoomIds :
          Idle(s) /\ Joins(s) < 1 /\ JoinMediaRoom(s, r)
    \/ \E t \in tasks : JoinMediaRoomCreateRouter(t)
    \/ \E s \in StopProducers, r \in MediaRoomIds :
          Idle(s) /\ CreateTransport(s, r, "send")
    \/ \E t \in tasks : CreateTransportStore(t)
    \/ \E s \in StopProducers, r \in MediaRoomIds :
          Idle(s) /\ MayProduce(s, r) /\ Produce(s, r, "audio")
    \/ \E t \in tasks : ProduceInstall(t)
    \/ \E t \in tasks, o \in TapResults : RecordingTap(t, o, RtpPort, "ok")
    \/ \E t \in tasks : RecordingResume(t)
    \/ \E s \in StopSessions, r \in MediaRoomIds : LeaveMediaRoom(s, r)
    \/ \E s \in StopDisconnects : Disconnect(s)
    \/ \E t \in tasks : StopRecordingTimer(t)

SpecStop ==
    Init /\ [][NextStop]_vars /\ WF_vars(\E t \in tasks : StopRecordingTimer(t))

\* The tap model: s1 and s2 join once, open a send transport and produce, s1
\* audio and s2 audio or video; every createRecordingInput picks a port of
\* RtpPorts and ends in any of TapOutcomes, the spawn in any of SpawnOutcomes;
\* s2 may leave.
RtpPorts == {20000, 20001}
TapSessions == {"s1", "s2"}
TapProducers == {<<"s1", "audio">>, <<"s2", "audio">>, <<"s2", "video">>}
TapLeavers == {"s2"}

NextTaps ==
    \/ \E s \in TapSessions, r \in MediaRoomIds :
          Idle(s) /\ Joins(s) < 1 /\ JoinMediaRoom(s, r)
    \/ \E t \in tasks : JoinMediaRoomCreateRouter(t)
    \/ \E s \in TapSessions, r \in MediaRoomIds :
          Idle(s) /\ CreateTransport(s, r, "send")
    \/ \E t \in tasks : CreateTransportStore(t)
    \/ \E q \in TapProducers, r \in MediaRoomIds :
          Idle(q[1]) /\ MayProduce(q[1], r) /\ Produce(q[1], r, q[2])
    \/ \E t \in tasks : ProduceInstall(t)
    \/ \E t \in tasks, o \in TapOutcomes, port \in RtpPorts, sp \in SpawnOutcomes :
          RecordingTap(t, o, port, sp)
    \/ \E t \in tasks : RecordingResume(t)
    \/ \E s \in TapLeavers, r \in MediaRoomIds : LeaveMediaRoom(s, r)
    \/ \E t \in tasks : StopRecordingTimer(t)
    \/ \E t \in tasks : StopRecordingKill(t)

SpecTaps == Init /\ [][NextTaps]_vars

\* The shutdown model: s1 and s2 join once, open a send transport and produce
\* audio; both may leave, at any point of the start of the recording; every
\* createRecordingInput ends in any of TapOutcomes.  The 2 s timers of
\* stopRecording fire.
ShutdownSessions == {"s1", "s2"}

NextShutdown ==
    \/ \E s \in ShutdownSessions, r \in MediaRoomIds :
          Idle(s) /\ Joins(s) < 1 /\ JoinMediaRoom(s, r)
    \/ \E t \in tasks : JoinMediaRoomCreateRouter(t)
    \/ \E s \in ShutdownSessions, r \in MediaRoomIds :
          Idle(s) /\ CreateTransport(s, r, "send")
    \/ \E t \in tasks : CreateTransportStore(t)
    \/ \E s \in ShutdownSessions, r \in MediaRoomIds :
          Idle(s) /\ MayProduce(s, r) /\ Produce(s, r, "audio")
    \/ \E t \in tasks : ProduceInstall(t)
    \/ \E t \in tasks, o \in TapOutcomes : RecordingTap(t, o, RtpPort, "ok")
    \/ \E t \in tasks : RecordingResume(t)
    \/ \E s \in ShutdownSessions, r \in MediaRoomIds : LeaveMediaRoom(s, r)
    \/ \E t \in tasks : StopRecordingTimer(t)
    \/ \E t \in tasks : StopRecordingKill(t)

SpecShutdown ==
    /\ Init /\ [][NextShutdown]_vars
    /\ WF_vars(\E t \in tasks : StopRecordingTimer(t))
    /\ WF_vars(\E t \in tasks : StopRecordingKill(t))

\* The consume model: s1 and s2 join once, open send transports and produce
\* audio; s1 also sets its RTP capabilities, opens a recv transport and
\* consumes, while fewer than MaxConsumers consumers exist; s1 connects recv
\* transports and asks for the producers, and both resume consumers.
MaxConsumers == 1
ConsumeSessions == {"s1", "s2"}
Consumers == {"s1"}
ConsumeTransports == {<<"s1", "send">>, <<"s1", "recv">>, <<"s2", "send">>}
ConsumeCapabilities == {"all", "video"}

NextConsume ==
    \/ \E s \in ConsumeSessions, r \in MediaRoomIds :
          Idle(s) /\ Joins(s) < 1 /\ JoinMediaRoom(s, r)
    \/ \E t \in tasks : JoinMediaRoomCreateRouter(t)
    \/ \E s \in Consumers, r \in MediaRoomIds, c \in ConsumeCapabilities :
          SetRtpCapabilities(s, r, c)
    \/ \E q \in ConsumeTransports, r \in MediaRoomIds :
          Idle(q[1]) /\ CreateTransport(q[1], r, q[2])
    \/ \E t \in tasks : CreateTransportStore(t)
    \/ \E s \in ConsumeSessions, r \in MediaRoomIds :
          Idle(s) /\ MayProduce(s, r) /\ Produce(s, r, "audio")
    \/ \E t \in tasks : ProduceInstall(t)
    \/ \E t \in tasks, o \in TapResults : RecordingTap(t, o, RtpPort, "ok")
    \/ \E t \in tasks : RecordingResume(t)
    \/ \E s \in Consumers, r \in MediaRoomIds, p \in 1..Len(producerObjs) :
          /\ Idle(s)
          /\ Len(consumerObjs) + Pending("consume", "consume") < MaxConsumers
          /\ Consume(s, r, p)
    \/ \E t \in tasks : ConsumeInstall(t)
    \/ \E s \in Consumers, r \in MediaRoomIds, p \in 1..Len(peerObjs) :
          Idle(s) /\ ConnectTransport(s, r, <<p, "recv">>)
    \/ \E t \in tasks : ConnectTransportAck(t)
    \/ \E s \in ConsumeSessions, r \in MediaRoomIds, c \in 1..MaxConsumers :
          Idle(s) /\ ResumeConsumer(s, r, c)
    \/ \E t \in tasks : ResumeConsumerAck(t)
    \/ \E s \in Consumers, r \in MediaRoomIds : GetProducers(s, r)
    \/ \E s \in ConsumeSessions, r \in MediaRoomIds : LeaveMediaRoom(s, r)
    \/ \E t \in tasks : StopRecordingTimer(t)

SpecConsume == Init /\ [][NextConsume]_vars

\* The steps that resume a suspended media request.
MediaResume(t) ==
    \/ JoinMediaRoomCreateRouter(t)
    \/ CreateTransportStore(t)
    \/ ConnectTransportAck(t)
    \/ ProduceInstall(t)
    \/ \E o \in TapResults : RecordingTap(t, o, RtpPort, "ok")
    \/ RecordingResume(t)
    \/ ConsumeInstall(t)
    \/ ResumeConsumerAck(t)

\* The request model: the consume model in which only s1 leaves and resumes
\* consumers, with the event loop's scheduling: every promise a handler awaits
\* settles, and the handler of each socket is then resumed.
RequestLeavers == {"s1"}

NextRequests ==
    \/ \E s \in ConsumeSessions, r \in MediaRoomIds :
          Idle(s) /\ Joins(s) < 1 /\ JoinMediaRoom(s, r)
    \/ \E t \in tasks : JoinMediaRoomCreateRouter(t)
    \/ \E s \in Consumers, r \in MediaRoomIds, c \in ConsumeCapabilities :
          SetRtpCapabilities(s, r, c)
    \/ \E q \in ConsumeTransports, r \in MediaRoomIds :
          Idle(q[1]) /\ CreateTransport(q[1], r, q[2])
    \/ \E t \in tasks : CreateTransportStore(t)
    \/ \E s \in ConsumeSessions, r \in MediaRoomIds :
          Idle(s) /\ MayProduce(s, r) /\ Produce(s, r, "audio")
    \/ \E t \in tasks : ProduceInstall(t)
    \/ \E t \in tasks, o \in TapResults : RecordingTap(t, o, RtpPort, "ok")
    \/ \E t \in tasks : RecordingResume(t)
    \/ \E s \in Consumers, r \in MediaRoomIds, p \in 1..Len(producerObjs) :
          /\ Idle(s)
          /\ Len(consumerObjs) + Pending("consume", "consume") < MaxConsumers
          /\ Consume(s, r, p)
    \/ \E t \in tasks : ConsumeInstall(t)
    \/ \E s \in Consumers, r \in MediaRoomIds, p \in 1..Len(peerObjs) :
          Idle(s) /\ ConnectTransport(s, r, <<p, "recv">>)
    \/ \E t \in tasks : ConnectTransportAck(t)
    \/ \E s \in Consumers, r \in MediaRoomIds, c \in 1..MaxConsumers :
          Idle(s) /\ ResumeConsumer(s, r, c)
    \/ \E t \in tasks : ResumeConsumerAck(t)
    \/ \E s \in Consumers, r \in MediaRoomIds : GetProducers(s, r)
    \/ \E s \in RequestLeavers, r \in MediaRoomIds : LeaveMediaRoom(s, r)
    \/ \E t \in tasks : StopRecordingTimer(t)

SpecRequests ==
    /\ Init /\ [][NextRequests]_vars
    /\ \A s \in ConsumeSessions :
          WF_vars(\E t \in tasks : t.kind \in MediaRequestKinds /\ t.sid = s
                                    /\ MediaResume(t))

\* ===================================================================== claims

\* ---- C1 (checked under SpecChat)
Rank(status) ==
    CASE status = "none" -> 0
      [] status = "sent" -> 1
      [] status = "delivered" -> 2
      [] status = "read" -> 3

SendInProgress(m) ==
    \E t \in tasks : t.kind = "send_group_message" /\ t.msgId = m

\* C1: once the send handler of a message has finished, the stored status of
\* every (message, recipient) row only advances along sent -> delivered -> read
\* under message_delivered and mark_read; a row that is read stays read.
C1_StatusNeverRegresses ==
    [][\A m \in MessageIds, u \in Users :
         ~SendInProgress(m) =>
            Rank(message_status'[m][u]) >= Rank(message_status[m][u])]_vars

\* ---- C2 (checked under SpecConsume)
\* The owner of a producer, as consume finds it: the peer of the room whose
\* producers hold it.
Owns(s, roomId, producerId) ==
    /\ rooms[roomId] # NoObj
    /\ ProducerOwnerId(rooms[roomId], producerId) = s

\* C2: no consumer exists for a producer of the consuming peer, and a consume
\* request of the producer's owner is answered with the error 'Cannot consume
\* own producer' and adds no consumer, whatever the peer's RTP capabilities
\* and recv transport are.
C2_NoConsumerOfOwnProducer ==
    /\ [](\A c \in 1..Len(consumerObjs) :
            producerObjs[consumerObjs[c].producerId].peerId # consumerObjs[c].peerId)
    /\ [][\A s \in Sessions, r \in MediaRoomIds, p \in 1..Len(producerObjs) :
            (Consume(s, r, p) /\ Owns(s, r, p)) =>
               /\ emitted' = <<Ack(s, "consume", FALSE, "Cannot consume own producer")>>
               /\ consumerObjs' = consumerObjs
               /\ peerObjs' = peerObjs
               /\ tasks' = tasks]_vars

\* The owner of a producer, with RTP capabilities set and a recv transport open,
\* has just been refused.
C2_Witness ==
    \E s \in Sessions, r \in MediaRoomIds :
       /\ emitted = <<Ack(s, "consume", FALSE, "Cannot consume own producer")>>
       /\ LookupError(r, s) = ""
       /\ peerObjs[RoomPeersGet(rooms[r], s)].rtpCapabilities # "null"
       /\ peerObjs[RoomPeersGet(rooms[r], s)].recvTransport = "open"

\* ---- C3 (checked under SpecRecording)
\* C3: the step that installs a new producer starts a recording if and only
\* if the room then has no recording and at least 2 of its peers hold at least
\* one producer; the recording started becomes room.recording, and otherwise
\* room.recording is left as it was.
C3_RecordingStartsIff ==
    [][\A t \in tasks :
         (t.kind = "produce" /\ t.pc = "produce" /\ t \notin tasks'
            /\ Len(producerObjs') = Len(producerObjs) + 1) =>
         LET x == rooms[t.roomId]
             holding == IF x = NoObj THEN 0
                        ELSE Cardinality({i \in 1..Len(roomObjs[x].peers) :
                               peerObjs'[roomObjs[x].peers[i].peer].producers # <<>>})
             started == Len(recordingObjs') = Len(recordingObjs) + 1
         IN /\ started <=> (x # NoObj /\ roomObjs[x].recording = NoObj /\ holding >= 2)
            /\ started => roomObjs'[x].recording = Len(recordingObjs')
            /\ ~started => recordingObjs' = recordingObjs /\ roomObjs' = roomObjs]_vars

\* A produce has just started a recording: the room refers to it and its loop
\* over the producers is suspended in the first input.
C3_Witness ==
    \E t \in tasks :
       /\ t.kind = "produce" /\ t.pc = "tap"
       /\ roomObjs[t.room].recording # NoObj
       /\ recordingObjs[roomObjs[t.room].recording].taps = <<>>
       /\ recordingObjs[roomObjs[t.room].recording].ffmpegProcess = NoObj

\* ---- C4 (checked under SpecStop)
StopRoomObjs == 1..3                     \* the room objects SpecStop can create

StopPending(x) == \E t \in tasks : t.kind = "stopRecording" /\ t.room = x

StopStarted(x, rec) ==
    \E t \in tasks' \ tasks : t.kind = "stopRecording" /\ t.room = x /\ t.recording = rec

LiveMuxers(roomId) ==
    {p \in 1..Len(ffmpegProcs) :
        /\ recordingObjs[ffmpegProcs[p].recording].roomId = roomId
        /\ ffmpegProcs[p].signals = <<>>}

\* C5: a media room has at most one recording at a time: at most one muxer
\* process launched for the room is running without having been told to quit.
C5_OneMuxerPerRoom ==
    \A r \in MediaRoomIds : Cardinality(LiveMuxers(r)) <= 1

\* ---- C6 (checked under SpecRecording)
\* C6: every room in the rooms map has a peer and an open router, and the
\* step that takes the last peer out of a room closes its router and deletes
\* its entry.
C6_EmptyRoomIsClosed ==
    /\ [](\A r \in MediaRoomIds :
            rooms[r] # NoObj => /\ roomObjs[rooms[r]].peers # <<>>
                                /\ ~roomObjs[rooms[r]].routerClosed)
    /\ [][\A r \in MediaRoomIds :
            (/\ rooms[r] # NoObj
             /\ roomObjs[rooms[r]].peers # <<>>
             /\ roomObjs'[rooms[r]].peers = <<>>) =>
            (roomObjs'[rooms[r]].routerClosed /\ rooms'[r] = NoObj)]_vars

\* The last peer of a room has been removed: the room object is empty, closed
\* and out of the map.
C6_Witness ==
    \E x \in 1..Len(roomObjs) :
       /\ roomObjs[x].peers = <<>>
       /\ roomObjs[x].routerClosed
       /\ rooms[roomObjs[x].id] = NoObj

\* ---- C7 (checked under SpecRecording)
\* C7: no .sdp file written for a recording is left once a stopRecording for
\* that recording has returned.
C7_SdpFilesDeleted ==
    \A f \in sdpFiles : f.rec \notin stopReturns

\* A recording that had inputs written has been stopped while a recording loop
\* is still creating inputs.
C7_Witness ==
    /\ \E rec \in stopReturns : recordingObjs[rec].taps # <<>>
    /\ \E t \in tasks : t.kind = "produce" /\ t.pc = "tap"

\* ---- C8 (checked under SpecPresence)
\* C8: is_online of a user is flipped from true to false only by the disconnect
\* of the user's last registered session: after the flip no session is
\* registered for that user.
C8_OfflineOnlyOnLastSession ==
    [][\A u \in Users :
         (is_online[u] /\ ~is_online'[u]) => SessionsOf(u)' = {}]_vars

\* ---- C9 (checked under SpecRooms)
PairAcks(a, b) ==
    {k \in chatAcks : {k.userId, k.targetUserId} = {a, b}}

\* C9: for two distinct users at most one private room exists, every
\* start_private_chat answer for the pair names the same room, and at most one
\* of the answers says created.
C9_PrivateRoomUniquePerPair ==
    \A a \in Users : \A b \in Users \ {a} :
       /\ Cardinality(PrivateRoomsOf(a, b)) <= 1
       /\ \A k1, k2 \in PairAcks(a, b) : k1.room = k2.room
       /\ Cardinality({k \in PairAcks(a, b) : k.created}) <= 1

\* ---- C10 (checked under SpecCalls)
AllowedCallTransitions ==
    {<<"ringing", "ongoing">>, <<"ringing", "rejected">>, <<"ringing", "missed">>,
     <<"ongoing", "completed">>}

\* C10: the status of a call row changes only along ringing->ongoing,
\* ringing->rejected, ringing->missed and ongoing->completed; a completed,
\* missed or rejected call never changes again.
C10_CallStatusMachine ==
    [][\A id \in 1..Len(calls) :
         calls'[id].status # calls[id].status =>
            <<calls[id].status, calls'[id].status>> \in AllowedCallTransitions]_vars

\* ---- C11 (checked under SpecCalls)
\* C11: an end_call that changes a call row moves a ringing call to missed, and
\* moves a call to completed only when it was ongoing.
C11_EndCallOnRingingIsMissed ==
    [][\A t \in tasks :
         (t.kind = "end_call" /\ t \notin tasks' /\ calls'[t.callId] # calls[t.callId]) =>
            /\ calls[t.callId].status = "ringing" => calls'[t.callId].status = "missed"
            /\ calls'[t.callId].status = "completed" => calls[t.callId].status = "ongoing"]_vars

\* ---- C12 (checked under SpecCalls)
\* `to` names the initiator of call id: the initiator's user id, or a session
\* registered for the initiator.
NamesInitiator(to, id) ==
    \/ to = calls[id].initiator_id
    \/ to \in SessionsOf(calls[id].initiator_id)

\* C12: when a reject_call addressed to the initiator of the room's ringing
\* call finishes, the call row is rejected with ended_at set, the room is out
\* of activeCalls, and call_rejected is emitted to a session of the initiator.
C12_RejectCallRejects ==
    [][\A t \in tasks :
         (/\ t.kind = "reject_call" /\ t \notin tasks'
          /\ calls[t.callId].status = "ringing"
          /\ NamesInitiator(t.to, t.callId)) =>
            /\ calls'[t.callId].status = "rejected"
            /\ calls'[t.callId].ended_at
            /\ activeCalls'[t.roomId] = NoCall
            /\ \E a \in SessionsOf(calls[t.callId].initiator_id) :
                 emitted' = <<[ev |-> "call_rejected", to |-> a]>>]_vars

\* ---- C13 (checked under SpecFanout)
MessageEvents == {"receive_group_message", "receive_private_message"}

\* The event reaches a session other than s: it is addressed to one, or to all.
ReachesOther(e, s) == e.to \in (Sessions \cup {Broadcast}) \ {s}

\* C13: a message event whose originating session had no user id reaches no
\* session but the originating one, and a call_user of a session without a
\* user id emits no incoming_call that reaches another session.
C13_UnregisteredNeverOriginates ==
    [][/\ \A i \in 1..Len(emitted') :
            (emitted'[i].ev \in MessageEvents /\ emitted'[i].senderId = NoUser) =>
               ~ReachesOther(emitted'[i], emitted'[i].socketId)
       /\ \A s \in Sessions, to \in Sessions \cup Users, r \in RoomIds \cup {NoRoom} :
            (CallUser(s, to, r) /\ UserIdOf(s) = NoUser) =>
               \A i \in 1..Len(emitted') :
                  emitted'[i].ev = "incoming_call" => ~ReachesOther(emitted'[i], s)]_vars

\* ---- C14 (checked under SpecFanout)
\* The users with a room_participants row for roomId that has not left.
ActiveParticipants(roomId) == {u \in Users : \E r \in db_rooms : r.id = roomId /\ u \in r.members}

\* The registered sessions whose user is an active participant of roomId.
ParticipantSessions(roomId) ==
    {s \in Sessions : CUHas(s) /\ UserIdOf(s) \in ActiveParticipants(roomId)}

\* The events em are ev, one for each session of `sessions` and no other.
OncePerSession(em, ev, sessions) ==
    /\ Len(em) = Cardinality(sessions)
    /\ {em[i].to : i \in 1..Len(em)} = sessions
    /\ \A i \in 1..Len(em) : em[i].ev = ev

LookupFailed(em) == Len(em) = 1 /\ em[1].to = Broadcast

C15_MessageEventsCarryPersistedId ==
    [][\A i \in 1..Len(emitted') :
         (emitted'[i].ev \in MessageEvents /\ emitted'[i].senderId # NoUser
            /\ emitted'[i].roomId # NoRoom) =>
            emitted'[i].messageId \in 1..Len(messages')]_vars

\* ---- C16 (checked under SpecRecording)
\* After the step, producer p is in the producer table of peerId's peer in the
\* room roomId maps.
RegisteredAfter(roomId, peerId, p) ==
    /\ rooms'[roomId] # NoObj
    /\ \E k \in 1..Len(roomObjs'[rooms'[roomId]].peers) :
          /\ roomObjs'[rooms'[roomId]].peers[k].peerId = peerId
          /\ p \in Range(peerObjs'[roomObjs'[rooms'[roomId]].peers[k].peer].producers)

\* C16: whenever new_producer{producerId} is emitted, the producer is in its
\* owner's producer table in that room.
C16_NewProducerIsRegistered ==
    [][\A i \in 1..Len(emitted') :
         emitted'[i].ev = "new_producer" =>
            RegisteredAfter(emitted'[i].roomId, emitted'[i].peerId,
                            emitted'[i].producerId)]_vars

\* ---- C17 (checked under SpecPresence)
\* C17: a session whose disconnect handling has begun is in no users_online
\* snapshot that a handler sends.
C17_DisconnectingSessionUnobserved ==
    [][\A i \in 1..Len(emitted') :
         emitted'[i].ev = "users_online" =>
            \A k \in 1..Len(emitted'[i].snapshot) :
               emitted'[i].snapshot[k].socketId \notin disconnected']_vars

\* ---- C18 (checked under SpecRecording)
HasPendingHandler(s) == \E t \in tasks : t.kind \in MediaRequestKinds /\ t.sid = s

\* C18: once a session has disconnected and none of its handlers is pending,
\* no media room holds a peer for it and the peer index has no entry for it.
C18_NoPeerAfterDisconnect ==
    \A s \in disconnected :
       ~HasPendingHandler(s) =>
          /\ peers[s] = NoPeerInfo
          /\ \A r \in MediaRoomIds : rooms[r] # NoObj => s \notin RoomPeerIds(rooms[r])

Delivered(to, target) ==
    /\ (to \in Sessions /\ to \notin disconnected) => target = to
    /\ (to \in Users /\ SessionsOf(to) # {}) => target \in SessionsOf(to)

SignalOf(kind) ==
    CASE kind = "call_user" -> "incoming_call"
      [] kind = "answer_call" -> "call_accepted"
      [] kind = "reject_call" -> "call_rejected"
      [] kind = "end_call" -> "call_ended"

\* C20: the event of every signalling request -- call_user, answer_call,
\* reject_call, end_call, whether they finish at once or after their queries,
\* and ice_candidate -- goes to the session its target names or resolves to.
C20_SignallingReachesTarget ==
    [][/\ \A t \in tasks :
            (t.kind \in {"call_user", "answer_call", "reject_call", "end_call"}
               /\ t \notin tasks' /\ emitted' # <<>>) =>
               \E i \in 1..Len(emitted') :
                  /\ emitted'[i].ev = SignalOf(t.kind)
                  /\ Delivered(t.to, emitted'[i].to)
       /\ \A s \in Sessions, to \in Sessions \cup Users :
            /\ IceCandidate(s, to) => Delivered(to, emitted'[1].to)
            /\ \A r \in RoomIds :
                 /\ (CallUser(s, to, r) /\ emitted' # <<>>) => Delivered(to, emitted'[1].to)
                 /\ (AnswerCall(s, to, r) /\ emitted' # <<>>) => Delivered(to, emitted'[1].to)
                 /\ (RejectCall(s, to, r) /\ emitted' # <<>>) => Delivered(to, emitted'[1].to)
                 /\ (EndCall(s, to, r) /\ emitted' # <<>>) => Delivered(to, emitted'[1].to)]_vars

\* ---- C21 (checked under SpecRequests)
\* The requests of the media handlers that take an ack.
AckedKinds == MediaRequestKinds \cup {"set_rtp_capabilities", "get_producers"}

\* The acks among the events em that answer request k of socket s.
AcksOf(em, s, k) ==
    {i \in 1..Len(em) : em[i].ev = "ack" /\ em[i].to = s /\ em[i].request = k}

\* A handler of request k of socket s is suspended among the tasks ts.
PendingRequest(ts, s, k) == \E t \in ts : t.kind = k /\ t.sid = s

\* This step is the arrival of request k from socket s.
Requests(s, k) ==
    \E r \in MediaRoomIds :
       \/ k = "join_media_room" /\ JoinMediaRoom(s, r)
       \/ k = "set_rtp_capabilities"
            /\ \E c \in ConsumeCapabilities : SetRtpCapabilities(s, r, c)
       \/ k = "create_transport" /\ \E d \in {"send", "recv"} : CreateTransport(s, r, d)
       \/ k = "connect_transport"
            /\ \E p \in 1..Len(peerObjs) : ConnectTransport(s, r, <<p, "recv">>)
       \/ k = "produce" /\ Produce(s, r, "audio")
       \/ k = "consume" /\ \E p \in 1..Len(producerObjs) : Consume(s, r, p)
       \/ k = "resume_consumer" /\ \E c \in 1..MaxConsumers : ResumeConsumer(s, r, c)
       \/ k = "get_producers" /\ GetProducers(s, r)

\* This step is the arrival of a request of socket s that names room r and
\* whose MediaServer method looks up the room and the peer first.
LooksUpPeer(s, r) ==
    \/ \E c \in ConsumeCapabilities : SetRtpCapabilities(s, r, c)
    \/ Produce(s, r, "audio")
    \/ \E p \in 1..Len(producerObjs) : Consume(s, r, p)
    \/ \E c \in 1..MaxConsumers : ResumeConsumer(s, r, c)

\* C21: every media request is acked exactly once: the step that ends its
\* handler -- the request itself when nothing is awaited, else the last
\* resumption -- calls the ack once, no other step does, and every suspended
\* handler is resumed to its end.  An ack is {success: true} or {success:
\* false, error}, and a request that names an unknown room or peer is acked
\* with the lookup's error.
C21_MediaRequestsAckOnce ==
    /\ [][/\ \A s \in ConsumeSessions, k \in AckedKinds :
              LET n == Cardinality(AcksOf(emitted', s, k)) IN
              /\ (PendingRequest(tasks, s, k) /\ ~PendingRequest(tasks', s, k)) => n = 1
              /\ PendingRequest(tasks', s, k) => n = 0
              /\ (~PendingRequest(tasks, s, k) /\ ~PendingRequest(tasks', s, k)) =>
                    n = IF tasks' = tasks /\ Requests(s, k) THEN 1 ELSE 0
          /\ \A i \in 1..Len(emitted') :
                emitted'[i].ev = "ack" =>
                   /\ emitted'[i].to \in ConsumeSessions
                   /\ emitted'[i].request \in AckedKinds
                   /\ emitted'[i].success <=> emitted'[i].message = ""
          /\ \A s \in ConsumeSessions, r \in MediaRoomIds :
                (tasks' = tasks /\ LookupError(r, s) # "" /\ LooksUpPeer(s, r)) =>
                   /\ Len(emitted') = 1
                   /\ ~emitted'[1].success
                   /\ emitted'[1].message = LookupError(r, s)]_vars
    /\ \A s \in ConsumeSessions :
          []<>(~\E t \in tasks : t.kind \in MediaRequestKinds /\ t.sid = s)

\* A consume that the media library rejected has just been acked with the
\* error.
C21_Witness ==
    \E s \in Sessions : emitted = <<Ack(s, "consume", FALSE, "consume failed")>>

\* ---- C22 (checked under SpecConsume)
\* C22: the step that creates a consumer ends a consume request: the consumer
\* is paused, belongs to the requesting peer, whose recv transport is open and
\* whose RTP capabilities are set; a consumer goes from paused to running only
\* in the step that ends a resume_consumer request of its own socket; and a
\* consume request of a peer whose capabilities are unset, or with which the
\* router cannot consume the producer, fails at once with no consumer.
C22_ConsumersPausedUntilResumed ==
    /\ [](\A c \in 1..Len(consumerObjs) :
            peerObjs[consumerObjs[c].peer].rtpCapabilities # "null")
    /\ [][/\ \A c \in 1..Len(consumerObjs') :
              c > Len(consumerObjs) =>
                 /\ consumerObjs'[c].paused
                 /\ peerObjs[consumerObjs'[c].peer].recvTransport = "open"
                 /\ peerObjs[consumerObjs'[c].peer].id = consumerObjs'[c].peerId
                 /\ c \in peerObjs'[consumerObjs'[c].peer].consumers
                 /\ \E t \in tasks \ tasks' :
                       /\ t.kind = "consume"
                       /\ t.sid = consumerObjs'[c].peerId
                       /\ t.producerId = consumerObjs'[c].producerId
          /\ \A c \in 1..Len(consumerObjs) :
              (consumerObjs[c].paused /\ ~consumerObjs'[c].paused) =>
                 \E t \in tasks \ tasks' :
                    /\ t.kind = "resume_consumer"
                    /\ t.consumerId = c
                    /\ t.sid = consumerObjs[c].peerId
          /\ \A s \in ConsumeSessions, r \in MediaRoomIds, p \in 1..Len(producerObjs) :
              (/\ LookupError(r, s) = ""
               /\ ProducerOwnerId(rooms[r], p) \notin {NoSocket, s}
               /\ ~canConsume(p, peerObjs[RoomPeersGet(rooms[r], s)].rtpCapabilities)
               /\ Consume(s, r, p)) =>
                 /\ emitted' = <<Ack(s, "consume", FALSE, "Cannot consume this producer")>>
                 /\ tasks' = tasks
                 /\ consumerObjs' = consumerObjs]_vars

\* The consumer of a peer has just been resumed at the peer's request.
C22_Witness ==
    \E c \in 1..Len(consumerObjs) :
       /\ ~consumerObjs[c].paused
       /\ emitted = <<Ack(consumerObjs[c].peerId, "resume_consumer", TRUE, "")>>

\* ---- C23 (checked under SpecHistory)
\* The least of the statuses S under the ordering sent < delivered < read.
LeastStatus(S) ==
    IF "sent" \in S THEN "sent" ELSE IF "delivered" \in S THEN "delivered" ELSE "read"

\* C23: every message a get_messages ack returns carries delivery_status
\* 'sent' when the message has no status row, and otherwise the least status
\* of its rows under sent < delivered < read.
C23_DeliveryStatusIsLeast ==
    \A i \in 1..Len(emitted) :
       (emitted[i].ev = "ack" /\ emitted[i].request = "get_messages") =>
          \A j \in 1..Len(emitted[i].messages) :
             LET row == emitted[i].messages[j] IN
             row.delivery_status =
                IF StatusRows(row.id) = {} THEN "sent"
                ELSE LeastStatus({message_status[row.id][u] : u \in StatusRows(row.id)})

\* A history has just been returned with a message that one recipient has read
\* and another has only been delivered.
C23_Witness ==
    /\ Len(emitted) = 1
    /\ emitted[1].ev = "ack" /\ emitted[1].request = "get_messages"
    /\ \E j \in 1..Len(emitted[1].messages) :
          /\ emitted[1].messages[j].delivery_status = "delivered"
          /\ \E u, v \in Users :
                /\ message_status[emitted[1].messages[j].id][u] = "read"
                /\ message_status[emitted[1].messages[j].id][v] = "delivered"

\* ---- C24 (checked under SpecTaps)
\* The taps of all recordings whose consumer has not been closed.
LiveTaps ==
    {q \in UNION {{<<rec, i>> : i \in 1..Len(recordingObjs[rec].taps)} :
                    rec \in 1..Len(recordingObjs)} :
       ~recordingObjs[q[1]].taps[q[2]].closed}

\* C24: no two live RTP taps, of one recording or of two, have the same UDP
\* port.
C24_LiveTapsHaveDistinctPorts ==
    \A a \in LiveTaps : \A b \in LiveTaps :
       a # b => recordingObjs[a[1]].taps[a[2]].port # recordingObjs[b[1]].taps[b[2]].port

\* ---- C25 (checked under SpecRecording)
\* C25: the step in which mediaServer.produce installs a producer in a room
\* that has a recording ends the produce and leaves the recording as it was:
\* the room's recording, its taps, plain transports and .sdp files and the
\* muxer processes are unchanged.
C25_LateProduceLeavesRecording ==
    [][\A t \in tasks :
          (/\ t.kind = "produce" /\ t.pc = "produce"
           /\ rooms[t.roomId] # NoObj
           /\ roomObjs[rooms[t.roomId]].recording # NoObj
           /\ ProduceInstall(t)) =>
             /\ roomObjs' = roomObjs
             /\ recordingObjs' = recordingObjs
             /\ ffmpegProcs' = ffmpegProcs
             /\ plainTransports' = plainTransports
             /\ sdpFiles' = sdpFiles
             /\ ~\E u \in tasks' : u.kind = "produce" /\ u.sid = t.sid]_vars

\* The first recording, which has a tap of the first producer, is the room's
\* recording, and the third producer has just been announced.
C25_Witness ==
    /\ Len(recordingObjs) = 1
    /\ \E x \in 1..Len(roomObjs) : roomObjs[x].recording = 1
    /\ \E i \in 1..Len(recordingObjs[1].taps) : recordingObjs[1].taps[i].producerId = 1
    /\ Len(emitted) > 0
    /\ emitted[1].ev = "new_producer"
    /\ emitted[1].producerId = 3

\* ---- C26 (checked under SpecChat)
\* C26: no step of send_group_message or send_private_message takes a status
\* row from read to another status: a row that the recipient's mark_read set
\* after the message was inserted is still read after the sender's 'sent'
\* upsert for that recipient.
C26_SentNeverDowngrades ==
    [][(\E t \in tasks \ tasks' :
           t.kind \in {"send_group_message", "send_private_message"}) =>
          \A m \in MessageIds, u \in Users :
             message_status[m][u] = "read" => message_status'[m][u] = "read"]_vars

\* ---- C27 (checked under SpecFanout)
\* The sockets a broadcast event leaves out.
Excluded(e) == IF "except" \in DOMAIN e THEN {e.except} \ {NoSocket} ELSE {}

\* The events em are one broadcast of ev to every connected socket but those
\* of `excluded`.
BroadcastOnce(em, ev, excluded) ==
    /\ Len(em) = 1
    /\ em[1].ev = ev
    /\ em[1].to = Broadcast
    /\ Excluded(em[1]) = excluded

\* C27: when the fan-out of a group message of a room, or of a typing event,
\* is not the fan-out to the participants' sessions -- the participant lookup
\* failed -- it is one broadcast of the event, to every connected socket for
\* receive_group_message and to every connected socket but the originating
\* one for the typing events, so that no socket gets the event twice.
C27_LookupFailureBroadcasts ==
    [][\A t \in tasks \ tasks' :
         /\ (/\ t.kind = "send_group_message" /\ t.pc = "emitParticipants"
             /\ ~OncePerSession(emitted', "receive_group_message",
                                ParticipantSessions(t.roomId))) =>
               BroadcastOnce(emitted', "receive_group_message", {})
         /\ (/\ t.kind \in {"typing_start", "typing_stop"}
             /\ ~OncePerSession(emitted', TypingEvent(t.kind),
                                ParticipantSessions(t.roomId) \ {t.sid})) =>
               BroadcastOnce(emitted', TypingEvent(t.kind), {t.sid})]_vars

\* A typing event has just been broadcast to every socket but the typing one,
\* while the three sockets are registered.
C27_Witness ==
    /\ Len(emitted) = 1
    /\ emitted[1].ev = "user_typing"
    /\ emitted[1].to = Broadcast
    /\ Excluded(emitted[1]) = {emitted[1].socketId}
    /\ \A s \in Sessions : CUHas(s)

\* ---- C28 (checked under SpecTaps)
\* The handler that started recording rec is still inside startRecording.
Starting(rec) ==
    \E t \in tasks :
       /\ t.kind = "produce" /\ t.pc \in {"tap", "resume"}
       /\ roomObjs[t.room].recording = rec

\* C28: once the produce that started a recording has ended, a recording
\* whose muxer could not be launched is no room's recording, its tap consumers
\* and plain transports are closed and its .sdp files are deleted.
C28_SpawnFailureAbortsRecording ==
    \A p \in 1..Len(ffmpegProcs) :
       LET rec == ffmpegProcs[p].recording IN
       (~ffmpegProcs[p].launched /\ ~Starting(rec)) =>
          /\ \A x \in 1..Len(roomObjs) : roomObjs[x].recording # rec
          /\ \A i \in 1..Len(recordingObjs[rec].taps) : recordingObjs[rec].taps[i].closed
          /\ \A i \in 1..Len(plainTransports) :
                plainTransports[i].recording = rec => plainTransports[i].closed
          /\ InputFiles(rec) \cap sdpFiles = {}

\* ---- C29 (checked under SpecTaps)
\* C29: once the produce that started a recording has ended without the
\* recording having been stopped, a recording with a tap has a muxer, and the
\* inputs of every muxer are exactly the .sdp files of its recording's taps.
C29_MuxerLaunchedWithSucceededTaps ==
    /\ \A x \in 1..Len(roomObjs) :
          LET rec == roomObjs[x].recording IN
          (rec # NoObj /\ ~Starting(rec) /\ recordingObjs[rec].taps # <<>>) =>
             \E p \in 1..Len(ffmpegProcs) : ffmpegProcs[p].recording = rec
    /\ \A p \in 1..Len(ffmpegProcs) :
          Range(ffmpegProcs[p].inputs) = InputFiles(ffmpegProcs[p].recording)

\* ---- C30 (checked under SpecTaps)
\* C30: when stopRecording has returned for a recording, every consumer of its
\* taps and every plain transport created for it is closed.
C30_StopClosesEveryTransport ==
    \A rec \in stopReturns :
       /\ \A i \in 1..Len(recordingObjs[rec].taps) : recordingObjs[rec].taps[i].closed
       /\ \A i \in 1..Len(plainTransports) :
             plainTransports[i].recording = rec => plainTransports[i].closed

\* ---- C31 (checked under SpecShutdown)
Muxers == 1..2                           \* the spawn calls SpecShutdown can make

SignalsOf(p) == ffmpegProcs[p].signals

\* In the signals `sig`, every `b` comes after an `a`.
Precedes(sig, a, b) ==
    \A i \in 1..Len(sig) : sig[i] = b => \E j \in 1..(i - 1) : sig[j] = a

Sent(p, a) == p \in DOMAIN ffmpegProcs /\ \E i \in 1..Len(SignalsOf(p)) : SignalsOf(p)[i] = a

TapsOf(recs, rec) == recs[rec].taps

C33_PresenceBroadcastAfterUpdate ==
    \A i \in 1..Len(emitted) :
       emitted[i].ev = "user_status_changed" =>
          is_online[emitted[i].userId] = emitted[i].is_online

\* ---- C34 (checked under SpecCalls)
\* C34: a call has at most one participant row per user, whatever answer_call
\* events arrive: a second answer_call, or an answer_call by the initiator,
\* adds no second row for the same (call, user).
C34_OneParticipantRowPerUser ==
    \A c \in DOMAIN calls, u \in Users : Cardinality(ParticipantRows(c, u)) <= 1

\* ---- C35 (checked under SpecRecording)
\* Socket s is a peer of a media room.
IsPeer(s) ==
    /\ peers[s] # NoPeerInfo
    /\ rooms[peers[s].roomId] # NoObj
    /\ RoomPeersGet(rooms[peers[s].roomId], s) = peers[s].peer

\* C35: a join_media_room of a socket that is a peer of a media room already
\* is acked as a failure, and the socket's entry in the peer index and its peer
\* object (transports, producers, consumers) are as before.
C35_SecondJoinIsRefused ==
    [][\A s \in Sessions :
         (/\ IsPeer(s)
          /\ \E i \in 1..Len(emitted') :
                /\ emitted'[i].ev = "ack" /\ emitted'[i].to = s
                /\ emitted'[i].request = "join_media_room") =>
            /\ \A i \in 1..Len(emitted') : emitted'[i].ev = "ack" => ~emitted'[i].success
            /\ peers'[s] = peers[s]
            /\ peerObjs'[peers[s].peer] = peerObjs[peers[s].peer]]_vars

\* ---- C36 (checked under SpecShutdown)
\* C36: the step that ends a produce request whose producer was created --
\* at once, or after the recording it started went through its taps, the spawn
\* and the resume loop -- emits new_producer to the other sockets of the room
\* and acks {success: true, id}, whatever failed in the recording.
C36_RecordingFailureKeepsProduce ==
    [][\A t \in tasks \ tasks' :
         (/\ t.kind = "produce"
          /\ ~\E u \in tasks' \ tasks : u.kind = "produce" /\ u.sid = t.sid
          /\ (t.pid # NoObj \/ Len(producerObjs') > Len(producerObjs))) =>
            emitted' = Produced([t EXCEPT !.pid = IF t.pid # NoObj THEN t.pid
                                                  ELSE Len(producerObjs')],
                                socketRooms)]_vars

\* ---- C37 (checked under SpecTransaction)
Transactions == {t \in tasks : t.kind = "transaction"}

\* C37: a transaction whose callback succeeded sends COMMIT and, when the
\* COMMIT succeeds, resolves with BEGIN and COMMIT as its only statements; when
\* the callback or the COMMIT fails it sends ROLLBACK as its last statement and
\* rejects, with the error it caught when the ROLLBACK went through; and a
\* transaction that got a client has released it once when it is settled and
\* not before -- also when the BEGIN or the ROLLBACK failed -- while one whose
\* connect failed releases nothing.
C37_TransactionCommitsOrRollsBack ==
    \A t \in Transactions :
       /\ t.callback = "ok" => \E i \in 1..Len(t.queries) : t.queries[i] = "COMMIT"
       /\ t.settled = "resolved" <=>
            (t.pc = "done" /\ t.callback = "ok" /\ t.err = "")
       /\ t.settled = "resolved" => t.queries = <<"BEGIN", "COMMIT">>
       /\ (t.pc = "done" /\ t.err # "") =>
            /\ t.queries[Len(t.queries)] = "ROLLBACK"
            /\ t.settled = "rejected"
            /\ t.thrown \in {t.err, "ROLLBACK"}
       /\ (t.callback = "failed" \/ t.err = "COMMIT") =>
            t.queries[Len(t.queries)] = "ROLLBACK"
       /\ t.released = IF t.pc = "done" /\ t.thrown # "connect" THEN 1 ELSE 0

\* One transaction was rolled back after its COMMIT failed and another one's
\* ROLLBACK failed after its BEGIN did; both have released their clients.
C37_Witness ==
    /\ \E t \in Transactions :
          /\ t.pc = "done" /\ t.thrown = "COMMIT" /\ t.released = 1
          /\ t.queries = <<"BEGIN", "COMMIT", "ROLLBACK">>
    /\ \E t \in Transactions :
          t.pc = "done" /\ t.err = "BEGIN" /\ t.thrown = "ROLLBACK" /\ t.released = 1

\* ---- C38 (checked under SpecRecording)
\* The room objects whose router is live.
LiveRooms == {x \in DOMAIN roomObjs : ~roomObjs[x].routerClosed}

\* C38: while no media handler is suspended, a socket is in this.peers with
\* room r exactly when it is a peer of the room object this.rooms holds for r;
\* the live routers are those of the room objects this.rooms holds, one for
\* each room id; and no socket is a peer of two room objects with a live
\* router.
C38_PeerIndexAgreesWithRooms ==
    (~\E t \in tasks : t.kind \in MediaRequestKinds \cup {"stopRecording"}) =>
       /\ \A s \in Sessions, r \in MediaRoomIds :
             (peers[s] # NoPeerInfo /\ peers[s].roomId = r) <=>
                (rooms[r] # NoObj /\ RoomPeersGet(rooms[r], s) # NoObj)
       /\ LiveRooms = {rooms[r] : r \in MediaRoomIds} \ {NoObj}
       /\ \A s \in Sessions :
             Cardinality({x \in LiveRooms : s \in RoomPeerIds(x)}) <= 1

\* ---- C39 (checked under SpecShutdown)
\* The startRecording that set recording rec of room object x, or a
\* stopRecording of it, has not finished.
InProgress(x, rec) ==
    \/ \E t \in tasks : t.kind = "produce" /\ t.pc \in {"tap", "resume"} /\ t.room = x
    \/ \E t \in tasks : t.kind = "stopRecording" /\ t.recording = rec

Count(sig, a) == Cardinality({i \in 1..Len(sig) : sig[i] = a})

\* C39: once the startRecording of a recording and every stopRecording of it
\* have finished, whatever their interleaving, the room has no recording, every
\* tap consumer of the recording and every plain transport created for it is
\* closed, its muxer, if one was spawned, has been told to quit, and the
\* teardown ran once (the muxer got one 'q' and one SIGTERM at most).
C39_StartAndStopLeaveNothing ==
    \A rec \in stopReturns :
       \A x \in DOMAIN roomObjs :
          (roomObjs[x].id = recordingObjs[rec].roomId /\ ~InProgress(x, rec)) =>
             /\ roomObjs[x].recording = NoObj
             /\ \A i \in 1..Len(recordingObjs[rec].taps) : recordingObjs[rec].taps[i].closed
             /\ \A i \in DOMAIN plainTransports :
                   plainTransports[i].room = x => plainTransports[i].closed
             /\ \A p \in DOMAIN ffmpegProcs :
                   ffmpegProcs[p].recording = rec =>
                      /\ ffmpegProcs[p].signals # <<>>
                      /\ Count(ffmpegProcs[p].signals, "q") <= 1
                      /\ Count(ffmpegProcs[p].signals, "SIGTERM") <= 1

\* ---- C40 (checked under SpecCalls)
CallHandlerKinds == {"call_user", "answer_call", "reject_call", "end_call"}

\* C40: while no call handler is suspended, activeCalls holds exactly the
\* calls that are not terminal: every call id it maps is ringing or ongoing,
\* and every ringing or ongoing call is the one mapped for its room.
C40_ActiveCallsAreTheLiveCalls ==
    (~\E t \in tasks : t.kind \in CallHandlerKinds) =>
       /\ \A r \in RoomIds :
             activeCalls[r] # NoCall => calls[activeCalls[r]].status \notin TerminalStatus
       /\ \A c \in DOMAIN calls :
             calls[c].status \notin TerminalStatus => activeCalls[calls[c].room_id] = c

====
